---- MODULE Spec2Model ----
(***************************************************************************)
(* Session lifecycle of the ELVES task commands                            *)
(* (src-tauri/src/commands/tasks.rs) over the process registry             *)
(* (src-tauri/src/agents/process.rs) and the sessions table                *)
(* (src-tauri/src/db/sessions.rs).                                         *)
(*                                                                         *)
(* Every command is an async handler that the frontend may invoke while    *)
(* other handlers and the stdout pump threads are running, so a handler is *)
(* split at its lock scopes: one action per critical section (a registry   *)
(* call, a `db.0.lock()` block) and one for the final emit + return.       *)
(***************************************************************************)
EXTENDS Naturals, Sequences, FiniteSets

\* ------------------------------------------------------------------ bounds
\* Child processes spawned over one behaviour (start_task and continue_task).
MaxRuns == 1
\* Calls of stop_task, stop_team_task and transition_to_interactive over one
\* behaviour.
MaxCalls == 2
\* Children handed to a ProcessManager that is driven method by method, and
\* the largest Vec<Child> handed to register_team.
MaxChildren == 3
MaxTeam == 2

\* Session identifiers the frontend uses (start_task draws a fresh uuid; the
\* other commands take the id as an argument).
SessionIds == {"s1"}

\* ------------------------------------------------------------------ state
VARIABLES
    status,       \* sessions.status per id; "none": the table has no row
    summary,      \* sessions.summary per id; "null" for SQL NULL
    token,        \* sessions.claude_session_id per id; "null" or "tok"
    runtime,      \* sessions.runtime per id
    processes,    \* ProcessManager.processes: id -> run of the registered child, 0: no entry
    teams,        \* ProcessManager.teams: id -> set of runs of the registered children
    interactive,  \* the ids flagged interactive (mark/is/clear_interactive)
    proc,         \* per run: the child process, [st, sid, kind]; st: unspawned, running, exited
    pump,         \* per run: the stdout pump thread, [pc, eosCancelled, eosFlag, eosResumed]
    nruns,        \* children spawned so far
    startCall,    \* per id: the start_task call in flight, and the result of the last one
    stopCall,     \* per id: the stop_task / stop_team_task call in flight
    transCall,    \* per id: the transition_to_interactive call in flight
    contCall,     \* per id: the continue_task call in flight, and the result of the last one
    ncalls,       \* stop and transition calls begun so far
    emitted,      \* per id and signal: how often the signal was emitted to the frontend
    handedOff,    \* history: ids whose transition_to_interactive returned, until continue_task resumes them
    flagRun,      \* history: per id, the latest run when the interactive flag was last set
    lastCall,     \* the last ProcessManager method called directly, [op, id, found, count]
    stream,       \* one stdout pump seen line by line: its input, its locals and what it put out
    applied,      \* one pure function applied to one input: [f, arg, res]
    locks         \* the three mutexes and the threads that take them: [owner, th]

vars == <<status, summary, token, runtime, processes, teams, interactive, proc, pump,
          nruns, startCall, stopCall, transCall, contCall, ncalls, emitted,
          handedOff, flagRun, lastCall, stream, applied, locks>>

\* The children a behaviour has room for: proc and pump have one slot for each.
Runs == DOMAIN proc

dbVars == <<status, summary, token, runtime>>
regVars == <<processes, teams>>
callVars == <<startCall, stopCall, transCall, contCall>>
dataVars == <<stream, applied, locks>>
histVars == <<handedOff, flagRun>>

\* ------------------------------------------------------------ persistence
\* The statuses stop_task treats as terminal.
Terminal == {"completed", "cancelled", "error"}

\* Variant: the terminal test forgets "completed".
AlreadyTerminalNoCompleted(st) == st \in {"cancelled", "error"}

\* matches!(s.status, "completed" | "cancelled" | "error"), false when the row is missing.
AlreadyTerminal(st) == st \in Terminal

\* update_session_status: UPDATE sessions SET status = ?1 ... WHERE id = ?4
\* (no row: nothing is updated and Ok(false) is returned).
StatusAfterUpdate(s, st) ==
    IF status[s] = "none" THEN status ELSE [status EXCEPT ![s] = st]

\* ... summary = COALESCE(?3, summary): a NULL summary keeps the stored one.
SummaryAfterUpdate(s, sum) ==
    IF status[s] = "none" \/ sum = "null" THEN summary ELSE [summary EXCEPT ![s] = sum]

\* update_claude_session_id: UPDATE sessions SET claude_session_id = ?1 WHERE id = ?2
TokenAfterUpdate(s, tok) ==
    IF status[s] = "none" THEN token ELSE [token EXCEPT ![s] = tok]

\* --------------------------------------------------------------- registry
\* ProcessManager::kill: the entry is removed, the child killed and reaped
\* (true also when the child had already exited). A killed child and one
\* that exited on its own are both "exited": their stdout is at end-of-file.
KillFound(s) == processes[s] # 0
\* Variant: kill signals the child but leaves its entry in the map.
ProcessesAfterKillKeepsEntry(s) == processes
ProcessesAfterKill(s) == [processes EXCEPT ![s] = 0]
ProcAfterKill(s) ==
    IF processes[s] = 0 THEN proc
    ELSE [proc EXCEPT ![processes[s]].st = "exited"]

\* ProcessManager::kill_team: the entry is removed, every child killed and reaped.
KillTeamCount(s) == Cardinality(teams[s])
\* Variant: kill_team empties the whole team map.
TeamsAfterKillTeamClearsAll(s) == [id \in DOMAIN teams |-> {}]
TeamsAfterKillTeam(s) == [teams EXCEPT ![s] = {}]
ProcAfterKillTeam(s, p) ==
    [r \in Runs |-> IF r \in teams[s] THEN [p[r] EXCEPT !.st = "exited"] ELSE p[r]]

\* ProcessManager::register: insert, replacing an entry of the same id without killing it.
ProcessesAfterRegister(s, r) == [processes EXCEPT ![s] = r]

\* The interactive flag of a session.
IsInteractive(s) == s \in interactive
MarkInteractive(s) == interactive \cup {s}
ClearInteractive(s) == interactive \ {s}

\* ---------------------------------------------------------------- signals
Signals == {"session:cancelled", "session:completed", "session:interactive",
            "session:continued", "session:error"}

\* app.emit(sig, {"sessionId": s, ..})
Emit(sig, s) == [emitted EXCEPT ![s][sig] = @ + 1]

\* The latest run spawned for a session (0: none yet).
RunsOf(s) == {r \in Runs : proc[r].sid = s}
CurRun(s) == IF RunsOf(s) = {} THEN 0 ELSE CHOOSE r \in RunsOf(s) : \A q \in RunsOf(s) : q <= r

IdleCall == [pc |-> "idle", res |-> "none"]
IdleStop == [pc |-> "idle", team |-> FALSE, killed |-> FALSE, teamKilled |-> 0]
IdleTrans == [pc |-> "idle", wasActive |-> FALSE]
NoProc == [st |-> "unspawned", sid |-> "none", kind |-> "none"]
NoPump == [pc |-> "none", eosCancelled |-> FALSE, eosFlag |-> FALSE, eosResumed |-> FALSE]
StartedPump == [NoPump EXCEPT !.pc = "reading"]
DonePump == [NoPump EXCEPT !.pc = "done"]

\* ------------------------------------------------------------------- Init
\* UPDATE sessions SET status = 'failed', ended_at = ?1, summary = 'Session
\* interrupted (app restarted)' WHERE status = 'active', on one row.
cleanup_stale_sessions(row) ==
    IF row.st = "active"
    THEN [row EXCEPT !.st = "failed", !.sum = "Session interrupted (app restarted)"]
    ELSE row

\* The state after run() in lib.rs: an empty ProcessManager, no call in
\* flight, and a sessions table that either has no row for the id or holds a
\* row written by an earlier run of the application, after
\* cleanup_stale_sessions: a Claude session that completed and stored its
\* upstream session id, or one that was left "active" without one.
StoredSessions ==
    { cleanup_stale_sessions(row) :
        row \in { [st |-> "none", rt |-> "none", tk |-> "null", sum |-> "null"],
                  [st |-> "completed", rt |-> "claude", tk |-> "tok",
                   sum |-> "completion summary"],
                  [st |-> "active", rt |-> "claude", tk |-> "null", sum |-> "null"] } }

\* No stdout is looked at line by line.
NoStream == [pc |-> "none"]

\* No pure function is looked at on its own.
NoApplied == [f |-> "none"]

\* No thread is followed from lock to lock.
NoLocks == [owner |-> "none"]

NoCall == [op |-> "none", id |-> "none", found |-> FALSE, count |-> 0]

Startup(n) ==
    /\ \E row \in StoredSessions :
          /\ status = [s \in SessionIds |-> row.st]
          /\ runtime = [s \in SessionIds |-> row.rt]
          /\ token = [s \in SessionIds |-> row.tk]
          /\ summary = [s \in SessionIds |-> row.sum]
    /\ processes = [s \in SessionIds |-> 0]
    /\ teams = [s \in SessionIds |-> {}]
    /\ interactive = {}
    /\ proc = [r \in 1..n |-> NoProc]
    /\ pump = [r \in 1..n |-> NoPump]
    /\ nruns = 0
    /\ startCall = [s \in SessionIds |-> IdleCall]
    /\ stopCall = [s \in SessionIds |-> IdleStop]
    /\ transCall = [s \in SessionIds |-> IdleTrans]
    /\ contCall = [s \in SessionIds |-> [pc |-> "idle", res |-> "none", run |-> 0]]
    /\ ncalls = 0
    /\ emitted = [s \in SessionIds |-> [sig \in Signals |-> 0]]
    /\ handedOff = {}
    /\ flagRun = [s \in SessionIds |-> 0]
    /\ lastCall = NoCall
    /\ stream = NoStream
    /\ applied = NoApplied
    /\ locks = NoLocks

Init == Startup(MaxRuns)

\* let session_id = uuid::Uuid::new_v4().to_string(): start_task makes the
\* id itself and hands it out only in its return value, so no command has
\* named the id before the row is created, and none names it before
\* start_task has returned.
FreshId(s) ==
    /\ ncalls = 0
    /\ contCall[s].pc = "idle" /\ contCall[s].res = "none"

IdHandedOut(s) == startCall[s].pc = "idle"

\* ------------------------------------------------------------- start_task
\* Steps 1-5: the session row is created with status 'active' (session_id is
\* a fresh uuid: the table has no row for it).
StartCreate(s, rt) ==
    /\ startCall[s].pc = "idle"
    /\ status[s] = "none"
    /\ FreshId(s)
    /\ nruns + 1 \in Runs
    /\ status' = [status EXCEPT ![s] = "active"]
    /\ runtime' = [runtime EXCEPT ![s] = rt]
    /\ startCall' = [startCall EXCEPT ![s] = [pc |-> "spawn", res |-> "none"]]
    /\ UNCHANGED <<lastCall, dataVars, summary, token, regVars, interactive, proc, pump, nruns,
                   stopCall, transCall, contCall, ncalls, emitted, histVars>>

\* Steps 6-7: spawn_codex / spawn_claude, where a spawn error returns Err
\* through `?`; then register, the pump threads are started and the id is
\* returned. No other thread can see the child before it is registered.
StartSpawn(s, ok) ==
    /\ startCall[s].pc = "spawn"
    /\ IF ok
       THEN /\ nruns' = nruns + 1
            /\ proc' = [proc EXCEPT ![nruns + 1] =
                          [st |-> "running", sid |-> s, kind |-> runtime[s]]]
            /\ processes' = ProcessesAfterRegister(s, nruns + 1)
            /\ pump' = [pump EXCEPT ![nruns + 1] = StartedPump]
            /\ startCall' = [startCall EXCEPT ![s] = [pc |-> "idle", res |-> "Ok"]]
       ELSE /\ startCall' = [startCall EXCEPT ![s] = [pc |-> "idle", res |-> "Err"]]
            /\ UNCHANGED <<nruns, proc, processes, pump>>
    /\ UNCHANGED <<lastCall, dataVars, dbVars, teams, interactive,
                   stopCall, transCall, contCall, ncalls, emitted, histVars>>

\* ------------------------------------------------ stop_task, stop_team_task
\* process_mgr.kill(&session_id) and, in stop_team_task, kill_team(&session_id).
\* Only stop_team_task touches the team map, so the two registry calls are
\* one step.
StopKill(s, team) ==
    /\ stopCall[s].pc = "idle"
    /\ IdHandedOut(s)
    /\ ncalls < MaxCalls
    /\ ncalls' = ncalls + 1
    /\ processes' = ProcessesAfterKill(s)
    /\ teams' = IF team THEN TeamsAfterKillTeam(s) ELSE teams
    /\ proc' = IF team THEN ProcAfterKillTeam(s, ProcAfterKill(s)) ELSE ProcAfterKill(s)
    /\ stopCall' = [stopCall EXCEPT ![s] =
                      [pc |-> "flag", team |-> team, killed |-> KillFound(s),
                       teamKilled |-> IF team THEN KillTeamCount(s) ELSE 0]]
    /\ UNCHANGED <<lastCall, dataVars, dbVars, interactive, pump, nruns,
                   startCall, transCall, contCall, emitted, histVars>>

\* let is_interactive = process_mgr.is_interactive(&session_id);
\* if killed || is_interactive { process_mgr.clear_interactive(&session_id); }
StopFlag(s) ==
    /\ stopCall[s].pc = "flag"
    /\ IF stopCall[s].killed \/ stopCall[s].teamKilled > 0 \/ IsInteractive(s)
       THEN /\ interactive' = ClearInteractive(s)
            /\ flagRun' = [flagRun EXCEPT ![s] = 0]
       ELSE UNCHANGED <<interactive, flagRun>>
    /\ stopCall' = [stopCall EXCEPT ![s].pc = "db"]
    /\ UNCHANGED <<lastCall, dataVars, dbVars, regVars, proc, pump, nruns,
                   startCall, transCall, contCall, ncalls, emitted, handedOff>>

\* The summary stop writes with status cancelled.
StopSummary(team) == IF team THEN "Team task stopped by user" ELSE "Task stopped by user"

\* The db.0.lock() block: read the status, write cancelled unless it is
\* terminal. dbOk = FALSE is update_session_status failing, which returns
\* Err("Database error") before anything is emitted.
StopDb(s, dbOk) ==
    /\ stopCall[s].pc = "db"
    /\ IF AlreadyTerminal(status[s])
       THEN /\ dbOk
            /\ stopCall' = [stopCall EXCEPT ![s].pc = "emit"]
            /\ UNCHANGED <<status, summary>>
       ELSE IF dbOk
            THEN /\ status' = StatusAfterUpdate(s, "cancelled")
                 /\ summary' = SummaryAfterUpdate(s, StopSummary(stopCall[s].team))
                 /\ stopCall' = [stopCall EXCEPT ![s].pc = "emit"]
            ELSE /\ stopCall' = [stopCall EXCEPT ![s] = IdleStop]
                 /\ UNCHANGED <<status, summary>>
    /\ UNCHANGED <<lastCall, dataVars, token, runtime, regVars, interactive, proc, pump, nruns,
                   startCall, transCall, contCall, ncalls, emitted, histVars>>

\* Variant: session:cancelled is emitted only when a process was killed.
StopEmitOnlyIfKilled(s) ==
    /\ stopCall[s].pc = "emit"
    /\ emitted' = IF stopCall[s].killed THEN Emit("session:cancelled", s) ELSE emitted
    /\ stopCall' = [stopCall EXCEPT ![s] = IdleStop]
    /\ UNCHANGED <<lastCall, dataVars, dbVars, regVars, interactive, proc, pump, nruns,
                   startCall, transCall, contCall, ncalls, histVars>>

\* app.emit("session:cancelled", ..), then Ok(killed || is_interactive).
StopEmit(s) ==
    /\ stopCall[s].pc = "emit"
    /\ emitted' = Emit("session:cancelled", s)
    /\ stopCall' = [stopCall EXCEPT ![s] = IdleStop]
    /\ UNCHANGED <<lastCall, dataVars, dbVars, regVars, interactive, proc, pump, nruns,
                   startCall, transCall, contCall, ncalls, histVars>>

\* ---------------------------------------------- transition_to_interactive
\* process_mgr.mark_interactive(&session_id);
TransMark(s) ==
    /\ transCall[s].pc = "idle"
    /\ IdHandedOut(s)
    /\ ncalls < MaxCalls
    /\ ncalls' = ncalls + 1
    /\ interactive' = MarkInteractive(s)
    /\ flagRun' = [flagRun EXCEPT ![s] = CurRun(s)]
    /\ transCall' = [transCall EXCEPT ![s] =
                       [pc |-> "kill", wasActive |-> status[s] = "active"]]
    /\ UNCHANGED <<lastCall, dataVars, dbVars, regVars, proc, pump, nruns,
                   startCall, stopCall, contCall, emitted, handedOff>>

\* let killed = process_mgr.kill(&session_id); then
\* app.emit("session:interactive", ..) and Ok(killed): the kill is the call's
\* last access to shared state.
TransKill(s) ==
    /\ transCall[s].pc = "kill"
    /\ processes' = ProcessesAfterKill(s)
    /\ proc' = ProcAfterKill(s)
    /\ emitted' = Emit("session:interactive", s)
    /\ handedOff' = IF transCall[s].wasActive THEN handedOff \cup {s} ELSE handedOff
    /\ transCall' = [transCall EXCEPT ![s] = IdleTrans]
    /\ UNCHANGED <<lastCall, dataVars, dbVars, teams, interactive, pump, nruns,
                   startCall, stopCall, contCall, ncalls, flagRun>>

\* ---------------------------------------------------------- continue_task
\* Variant: a missing claude_session_id is not an error; a process is spawned
\* all the same.
ContLookupNoTokenCheck(s, ok) ==
    /\ contCall[s].pc = "idle"
    /\ IdHandedOut(s)
    /\ IF status[s] = "none"
       THEN /\ ok
            /\ contCall' = [contCall EXCEPT ![s] =
                              [pc |-> "idle", res |-> "Session not found", run |-> 0]]
            /\ UNCHANGED <<nruns, proc, handedOff>>
       ELSE IF ~ok
       THEN /\ contCall' = [contCall EXCEPT ![s] =
                              [pc |-> "idle", res |-> "Failed to resume claude", run |-> 0]]
            /\ UNCHANGED <<nruns, proc, handedOff>>
       ELSE /\ nruns + 1 \in Runs
            /\ nruns' = nruns + 1
            /\ proc' = [proc EXCEPT ![nruns + 1] =
                          [st |-> "running", sid |-> s, kind |-> "claude"]]
            /\ contCall' = [contCall EXCEPT ![s] =
                              [pc |-> "status", res |-> "none", run |-> nruns + 1]]
            /\ handedOff' = handedOff \ {s}
    /\ UNCHANGED <<lastCall, dataVars, dbVars, regVars, interactive, pump,
                   startCall, stopCall, transCall, ncalls, emitted, flagRun>>

\* Steps 1-3. One db.0.lock() block looks up the session and its
\* claude_session_id: a missing row or a missing id returns Err. Then
\* spawn_claude_resume, where a spawn error returns Err through `?`. No other
\* thread can see the child before it is registered.
ContLookup(s, ok) ==
    /\ contCall[s].pc = "idle"
    /\ IdHandedOut(s)
    /\ IF status[s] = "none"
       THEN /\ ok
            /\ contCall' = [contCall EXCEPT ![s] =
                              [pc |-> "idle", res |-> "Session not found", run |-> 0]]
            /\ UNCHANGED <<nruns, proc, handedOff>>
       ELSE IF token[s] = "null"
       THEN /\ ok
            /\ contCall' = [contCall EXCEPT ![s] =
                              [pc |-> "idle", res |-> "No Claude session ID", run |-> 0]]
            /\ UNCHANGED <<nruns, proc, handedOff>>
       ELSE IF ~ok
       THEN /\ contCall' = [contCall EXCEPT ![s] =
                              [pc |-> "idle", res |-> "Failed to resume claude", run |-> 0]]
            /\ UNCHANGED <<nruns, proc, handedOff>>
       ELSE /\ nruns + 1 \in Runs
            /\ nruns' = nruns + 1
            /\ proc' = [proc EXCEPT ![nruns + 1] =
                          [st |-> "running", sid |-> s, kind |-> "claude"]]
            /\ contCall' = [contCall EXCEPT ![s] =
                              [pc |-> "status", res |-> "none", run |-> nruns + 1]]
            /\ handedOff' = handedOff \ {s}
    /\ UNCHANGED <<lastCall, dataVars, dbVars, regVars, interactive, pump,
                   startCall, stopCall, transCall, ncalls, emitted, flagRun>>

\* Variant: the status is not flipped back to active.
ContStatusSkipped(s) ==
    /\ contCall[s].pc = "status"
    /\ contCall' = [contCall EXCEPT ![s].pc = "register"]
    /\ UNCHANGED <<lastCall, dataVars, dbVars, regVars, interactive, proc, pump, nruns,
                   startCall, stopCall, transCall, ncalls, emitted, histVars>>

\* Step 4: update_session_status(.., "active", None), its result ignored.
ContStatus(s) ==
    /\ contCall[s].pc = "status"
    /\ status' = StatusAfterUpdate(s, "active")
    /\ summary' = SummaryAfterUpdate(s, "null")
    /\ contCall' = [contCall EXCEPT ![s].pc = "register"]
    /\ UNCHANGED <<lastCall, dataVars, token, runtime, regVars, interactive, proc, pump, nruns,
                   startCall, stopCall, transCall, ncalls, emitted, histVars>>

\* Steps 5-6: register, then the pump threads are started (always the Claude
\* pump); app.emit("session:continued", ..) and Ok(true) follow without
\* another access to shared state.
ContRegister(s) ==
    /\ contCall[s].pc = "register"
    /\ processes' = ProcessesAfterRegister(s, contCall[s].run)
    /\ pump' = [pump EXCEPT ![contCall[s].run] = StartedPump]
    /\ emitted' = Emit("session:continued", s)
    /\ contCall' = [contCall EXCEPT ![s] = [pc |-> "idle", res |-> "Ok", run |-> 0]]
    /\ UNCHANGED <<lastCall, dataVars, dbVars, teams, interactive, proc, nruns,
                   startCall, stopCall, transCall, ncalls, histVars>>

\* ------------------------------------------------------ the child process
\* The child exits on its own: its stdout reaches end-of-file. Nothing
\* removes its registry entry.
ProcExit(r) ==
    /\ proc[r].st = "running"
    /\ proc' = [proc EXCEPT ![r].st = "exited"]
    /\ UNCHANGED <<lastCall, dataVars, dbVars, regVars, interactive, pump, nruns, callVars,
                   ncalls, emitted, histVars>>

\* ------------------------- stream_claude_output, stream_codex_output
LineKinds == {"system", "other"}

\* One iteration of `for line in reader.lines()`. The Claude pump stores the
\* session_id of a system event; the Codex pump does not. Lines written
\* before the child died are still read from the pipe.
PumpLine(r, kind) ==
    /\ pump[r].pc = "reading"
    /\ token' = IF proc[r].kind = "claude" /\ kind = "system"
                THEN TokenAfterUpdate(proc[r].sid, "tok") ELSE token
    /\ UNCHANGED <<lastCall, dataVars, status, summary, runtime, regVars, interactive, proc, pump, nruns,
                   callVars, ncalls, emitted, histVars>>

\* The read loop ends. The Claude pump then reads the interactive flag
\* (process_mgr.is_interactive); the Codex pump goes straight to its write.
\* eosCancelled and, for Codex, eosFlag record what was stored at that moment,
\* eosResumed whether stop_task had by then announced the cancellation and
\* continue_task registered a later child of the session (history).
PumpLoopExit(r) ==
    /\ pump[r].pc = "reading"
    /\ pump' = [pump EXCEPT
                  ![r].eosCancelled = (status[proc[r].sid] = "cancelled"),
                  ![r].eosFlag = IsInteractive(proc[r].sid),
                  ![r].eosResumed = /\ emitted[proc[r].sid]["session:cancelled"] > 0
                                    /\ processes[proc[r].sid] > r,
                  ![r].pc = IF proc[r].kind = "codex" THEN "eos_write"
                            ELSE IF IsInteractive(proc[r].sid) THEN "eos_clear"
                            ELSE "eos_status"]
    /\ UNCHANGED <<lastCall, dataVars, dbVars, regVars, interactive, proc, nruns, callVars,
                   ncalls, emitted, histVars>>

\* reader.lines() ends at end-of-file: the child has exited or was killed.
PumpEof(r) ==
    /\ proc[r].st # "running"
    /\ PumpLoopExit(r)

\* Err(error) => break: a read error ends the loop while the child still runs.
PumpReadError(r) ==
    /\ proc[r].st = "running"
    /\ PumpLoopExit(r)

\* Claude: process_mgr.clear_interactive(session_id); return;
PumpClear(r) ==
    /\ pump[r].pc = "eos_clear"
    /\ interactive' = ClearInteractive(proc[r].sid)
    /\ flagRun' = [flagRun EXCEPT ![proc[r].sid] = 0]
    /\ pump' = [pump EXCEPT ![r] = DonePump]
    /\ UNCHANGED <<lastCall, dataVars, dbVars, regVars, proc, nruns, callVars, ncalls, emitted, handedOff>>

\* Claude, first db.0.lock() block: if session.status == "cancelled" { return; }
PumpCheckStatus(r) ==
    /\ pump[r].pc = "eos_status"
    /\ pump' = [pump EXCEPT ![r] =
                  IF status[proc[r].sid] = "cancelled" THEN DonePump
                  ELSE [@ EXCEPT !.pc = "eos_write"]]
    /\ UNCHANGED <<lastCall, dataVars, dbVars, regVars, interactive, proc, nruns, callVars,
                   ncalls, emitted, histVars>>

\* The summary written with status completed: the result event's text cut to
\* 500 characters, or "Task completed" (always, for Codex). It is never NULL;
\* its text is not distinguished here.
CompletedSummary(r) == "completion summary"

\* The second db.0.lock() block (Codex: the only one):
\* update_session_status(.., "completed", summary).
PumpWrite(r) ==
    /\ pump[r].pc = "eos_write"
    /\ status' = StatusAfterUpdate(proc[r].sid, "completed")
    /\ summary' = SummaryAfterUpdate(proc[r].sid, CompletedSummary(r))
    /\ pump' = [pump EXCEPT ![r].pc = "eos_emit"]
    /\ UNCHANGED <<lastCall, dataVars, token, runtime, regVars, interactive, proc, nruns, callVars,
                   ncalls, emitted, histVars>>

\* app.emit("session:completed", ..)
PumpEmit(r) ==
    /\ pump[r].pc = "eos_emit"
    /\ emitted' = Emit("session:completed", proc[r].sid)
    /\ pump' = [pump EXCEPT ![r] = DonePump]
    /\ UNCHANGED <<lastCall, dataVars, dbVars, regVars, interactive, proc, nruns, callVars,
                   ncalls, histVars>>

\* ------------------------------------------------------------------- Next
Next ==
    \/ \E s \in SessionIds, rt \in {"claude", "codex"} : StartCreate(s, rt)
    \/ \E s \in SessionIds, ok \in BOOLEAN : StartSpawn(s, ok)
    \/ \E s \in SessionIds, team \in BOOLEAN : StopKill(s, team)
    \/ \E s \in SessionIds : StopFlag(s)
    \/ \E s \in SessionIds, dbOk \in BOOLEAN : StopDb(s, dbOk)
    \/ \E s \in SessionIds : StopEmit(s)
    \/ \E s \in SessionIds : TransMark(s)
    \/ \E s \in SessionIds : TransKill(s)
    \/ \E s \in SessionIds, ok \in BOOLEAN : ContLookup(s, ok)
    \/ \E s \in SessionIds : ContStatus(s)
    \/ \E s \in SessionIds : ContRegister(s)
    \/ \E r \in Runs : ProcExit(r)
    \/ \E r \in Runs, kind \in LineKinds : PumpLine(r, kind)
    \/ \E r \in Runs : PumpEof(r)
    \/ \E r \in Runs : PumpReadError(r)
    \/ \E r \in Runs : PumpClear(r)
    \/ \E r \in Runs : PumpCheckStatus(r)
    \/ \E r \in Runs : PumpWrite(r)
    \/ \E r \in Runs : PumpEmit(r)

Spec == Init /\ [][Next]_vars

\* The same commands and threads with room for one more child, so that a
\* session can be resumed while an earlier child of it is still registered.
ResumeInit == Startup(MaxRuns + 1)
ResumeSpec == ResumeInit /\ [][Next]_vars

\* Fairness. A command that has been invoked runs to its return (the tauri
\* runtime schedules its future), a pump thread that std::thread::spawn has
\* started keeps running, and every child process ends at some time. Nothing
\* obliges the user to invoke a command, and a read error need not happen.
Threads ==
    \/ \E s \in SessionIds, ok \in BOOLEAN : StartSpawn(s, ok)
    \/ \E s \in SessionIds : StopFlag(s)
    \/ \E s \in SessionIds, dbOk \in BOOLEAN : StopDb(s, dbOk)
    \/ \E s \in SessionIds : StopEmit(s)
    \/ \E s \in SessionIds : TransKill(s)
    \/ \E s \in SessionIds : ContStatus(s)
    \/ \E s \in SessionIds : ContRegister(s)
    \/ \E r \in Runs : ProcExit(r)
    \/ \E r \in Runs : PumpEof(r)
    \/ \E r \in Runs : PumpClear(r)
    \/ \E r \in Runs : PumpCheckStatus(r)
    \/ \E r \in Runs : PumpWrite(r)
    \/ \E r \in Runs : PumpEmit(r)

FairSpec == Spec /\ WF_vars(Threads)

\* ------------------------------------------------------ the registry alone
\* A ProcessManager driven method by method, as the tests of process.rs do:
\* the caller spawns children and hands them to register / register_team,
\* and calls kill, kill_team and kill_all in any order on any id. Children
\* may also exit by themselves. No command and no pump runs.
RegIds == {"s1", "s2"}

\* ProcessManager::new(), and nothing else started.
RegInit ==
    /\ processes = [s \in RegIds |-> 0]
    /\ teams = [s \in RegIds |-> {}]
    /\ proc = [c \in 1..MaxChildren |-> NoProc]
    /\ pump = [c \in 1..MaxChildren |-> NoPump]
    /\ nruns = 0
    /\ lastCall = NoCall
    /\ stream = NoStream
    /\ applied = NoApplied
    /\ locks = NoLocks
    /\ status = [s \in RegIds |-> "none"]
    /\ runtime = [s \in RegIds |-> "none"]
    /\ token = [s \in RegIds |-> "null"]
    /\ summary = [s \in RegIds |-> "null"]
    /\ interactive = {}
    /\ startCall = [s \in RegIds |-> IdleCall]
    /\ stopCall = [s \in RegIds |-> IdleStop]
    /\ transCall = [s \in RegIds |-> IdleTrans]
    /\ contCall = [s \in RegIds |-> [pc |-> "idle", res |-> "none", run |-> 0]]
    /\ ncalls = 0
    /\ emitted = [s \in RegIds |-> [sig \in Signals |-> 0]]
    /\ handedOff = {}
    /\ flagRun = [s \in RegIds |-> 0]

restVars == <<dbVars, interactive, pump, callVars, ncalls, emitted, histVars, dataVars>>

\* The children a Command::spawn of the caller yields: the next k unused ones.
NewChildren(k) == (nruns + 1)..(nruns + k)
ProcAfterSpawn(id, cs) ==
    [c \in Runs |-> IF c \in cs THEN [st |-> "running", sid |-> id, kind |-> "claude"]
                    ELSE proc[c]]

\* ProcessManager::register_team: insert, replacing a team of the same id
\* without killing it.
TeamsAfterRegisterTeam(id, cs) == [teams EXCEPT ![id] = cs]

\* Variant: is_running looks at the single-process map only.
IsRunningSingleOnly(id) == processes[id] # 0

\* ProcessManager::is_running: contains_key on processes, then on teams.
IsRunning(id) == processes[id] # 0 \/ teams[id] # {}

\* The sum of f over the ids of S.
RECURSIVE SumOver(_, _)
SumOver(S, f) ==
    IF S = {} THEN 0
    ELSE LET x == CHOOSE y \in S : TRUE IN f[x] + SumOver(S \ {x}, f)

\* ProcessManager::active_count: processes.len() + the sum of the teams' len().
SingleCount == Cardinality({id \in DOMAIN processes : processes[id] # 0})
TeamCount == SumOver(DOMAIN teams, [id \in DOMAIN teams |-> Cardinality(teams[id])])
ActiveCount == SingleCount + TeamCount

\* ProcessManager::kill_all: both maps are drained, every child killed and
\* reaped, and the children are counted while that is done.
\* Variant: kill_all counts the single processes only.
KillAllCountSinglesOnly == Cardinality({id \in DOMAIN processes : processes[id] # 0})

KillAllCount ==
    Cardinality({id \in DOMAIN processes : processes[id] # 0})
        + SumOver(DOMAIN teams, [id \in DOMAIN teams |-> Cardinality(teams[id])])
ProcessesAfterKillAll == [id \in DOMAIN processes |-> 0]
TeamsAfterKillAll == [id \in DOMAIN teams |-> {}]
ProcAfterKillAll ==
    [c \in Runs |->
        IF \E id \in DOMAIN processes : processes[id] = c \/ c \in teams[id]
        THEN [proc[c] EXCEPT !.st = "exited"] ELSE proc[c]]

\* Variant: register kills the child it replaces.
RegisterKillsOld(id) ==
    /\ nruns + 1 \in Runs
    /\ nruns' = nruns + 1
    /\ proc' = [c \in Runs |->
                  IF c = nruns + 1 THEN [st |-> "running", sid |-> id, kind |-> "claude"]
                  ELSE IF c = processes[id] THEN [proc[c] EXCEPT !.st = "exited"]
                  ELSE proc[c]]
    /\ processes' = ProcessesAfterRegister(id, nruns + 1)
    /\ lastCall' = [NoCall EXCEPT !.op = "register", !.id = id]
    /\ UNCHANGED <<teams, restVars>>

\* let child = Command::new(..).spawn(); pm.register(id, child)
Register(id) ==
    /\ nruns + 1 \in Runs
    /\ nruns' = nruns + 1
    /\ proc' = ProcAfterSpawn(id, NewChildren(1))
    /\ processes' = ProcessesAfterRegister(id, nruns + 1)
    /\ lastCall' = [NoCall EXCEPT !.op = "register", !.id = id]
    /\ UNCHANGED <<teams, restVars>>

\* Variant: registering a team drops the single-process entry of the id.
RegisterTeamExclusive(id, k) ==
    /\ nruns + k \in Runs
    /\ nruns' = nruns + k
    /\ proc' = ProcAfterSpawn(id, NewChildren(k))
    /\ teams' = TeamsAfterRegisterTeam(id, NewChildren(k))
    /\ processes' = ProcessesAfterKill(id)
    /\ lastCall' = [NoCall EXCEPT !.op = "register_team", !.id = id]
    /\ UNCHANGED restVars

\* pm.register_team(id, vec![spawn(), ..]) with k children.
RegisterTeam(id, k) ==
    /\ nruns + k \in Runs
    /\ nruns' = nruns + k
    /\ proc' = ProcAfterSpawn(id, NewChildren(k))
    /\ teams' = TeamsAfterRegisterTeam(id, NewChildren(k))
    /\ lastCall' = [NoCall EXCEPT !.op = "register_team", !.id = id]
    /\ UNCHANGED <<processes, restVars>>

\* pm.kill(id)
Kill(id) ==
    /\ processes' = ProcessesAfterKill(id)
    /\ proc' = ProcAfterKill(id)
    /\ lastCall' = [NoCall EXCEPT !.op = "kill", !.id = id, !.found = KillFound(id)]
    /\ UNCHANGED <<teams, nruns, restVars>>

\* pm.kill_team(id)
KillTeam(id) ==
    /\ teams' = TeamsAfterKillTeam(id)
    /\ proc' = ProcAfterKillTeam(id, proc)
    /\ lastCall' = [NoCall EXCEPT !.op = "kill_team", !.id = id,
                                  !.count = KillTeamCount(id)]
    /\ UNCHANGED <<processes, nruns, restVars>>

\* pm.kill_all()
KillAll ==
    /\ processes' = ProcessesAfterKillAll
    /\ teams' = TeamsAfterKillAll
    /\ proc' = ProcAfterKillAll
    /\ lastCall' = [NoCall EXCEPT !.op = "kill_all", !.count = KillAllCount]
    /\ UNCHANGED <<nruns, restVars>>

RegNext ==
    \/ \E id \in RegIds : Register(id)
    \/ \E id \in RegIds, k \in 1..MaxTeam : RegisterTeam(id, k)
    \/ \E id \in RegIds : Kill(id)
    \/ \E id \in RegIds : KillTeam(id)
    \/ KillAll
    \/ \E c \in Runs : ProcExit(c)

RegSpec == RegInit /\ [][RegNext]_vars

\* ------------------------------------- start_team_task, stop_team_task
\* A team session from its start to its stop. Next to the two commands,
\* any other holder of the ProcessManager may call register and
\* register_team for the id. The steps of the pumps are those above; they
\* touch neither map and are left out here.

\* Steps 1-4 of start_team_task: the session row, then one elf row and one
\* elf:spawned per role of the plan.
StartTeamCreate(s, rt) ==
    /\ startCall[s].pc = "idle"
    /\ status[s] = "none"
    /\ FreshId(s)
    /\ nruns + 1 \in Runs
    /\ status' = [status EXCEPT ![s] = "active"]
    /\ runtime' = [runtime EXCEPT ![s] = rt]
    /\ startCall' = [startCall EXCEPT ![s] = [pc |-> "team_spawn", res |-> "none"]]
    /\ UNCHANGED <<lastCall, dataVars, summary, token, regVars, interactive, proc, pump, nruns,
                   stopCall, transCall, contCall, ncalls, emitted, histVars>>

\* Variant: the child is handed to register_team.
StartTeamSpawnRegistersTeam(s, ok) ==
    /\ startCall[s].pc = "team_spawn"
    /\ ok => nruns + 1 \in Runs
    /\ IF ok
       THEN /\ nruns' = nruns + 1
            /\ proc' = [proc EXCEPT ![nruns + 1] =
                          [st |-> "running", sid |-> s, kind |-> runtime[s]]]
            /\ teams' = TeamsAfterRegisterTeam(s, {nruns + 1})
            /\ pump' = [pump EXCEPT ![nruns + 1] = StartedPump]
            /\ startCall' = [startCall EXCEPT ![s] = [pc |-> "idle", res |-> "Ok"]]
            /\ UNCHANGED processes
       ELSE /\ startCall' = [startCall EXCEPT ![s] = [pc |-> "idle", res |-> "Err"]]
            /\ UNCHANGED <<nruns, proc, processes, teams, pump>>
    /\ UNCHANGED <<lastCall, dataVars, dbVars, interactive,
                   stopCall, transCall, contCall, ncalls, emitted, histVars>>

\* Step 5 on: spawn_codex_team or spawn_claude_team starts ONE child, which
\* runs the whole team (a spawn error returns Err through `?`); then
\* process_mgr.register(&session_id, child), the pump threads are started
\* and the id is returned.
StartTeamSpawn(s, ok) ==
    /\ startCall[s].pc = "team_spawn"
    /\ ok => nruns + 1 \in Runs
    /\ IF ok
       THEN /\ nruns' = nruns + 1
            /\ proc' = [proc EXCEPT ![nruns + 1] =
                          [st |-> "running", sid |-> s, kind |-> runtime[s]]]
            /\ processes' = ProcessesAfterRegister(s, nruns + 1)
            /\ pump' = [pump EXCEPT ![nruns + 1] = StartedPump]
            /\ startCall' = [startCall EXCEPT ![s] = [pc |-> "idle", res |-> "Ok"]]
       ELSE /\ startCall' = [startCall EXCEPT ![s] = [pc |-> "idle", res |-> "Err"]]
            /\ UNCHANGED <<nruns, proc, processes, pump>>
    /\ UNCHANGED <<lastCall, dataVars, dbVars, teams, interactive,
                   stopCall, transCall, contCall, ncalls, emitted, histVars>>

\* Variant: stop_team_task kills the single process only.
StopTeamKillSingleOnly(s) == StopKill(s, FALSE)

\* let single_killed = process_mgr.kill(&session_id);
\* let team_killed = process_mgr.kill_team(&session_id);
StopTeamKill(s) == StopKill(s, TRUE)

TeamNext ==
    \/ \E s \in SessionIds, rt \in {"claude", "codex"} : StartTeamCreate(s, rt)
    \/ \E s \in SessionIds, ok \in BOOLEAN : StartTeamSpawn(s, ok)
    \/ \E s \in SessionIds : Register(s)
    \/ \E s \in SessionIds, k \in 1..MaxTeam : RegisterTeam(s, k)
    \/ \E s \in SessionIds : StopTeamKill(s)
    \/ \E s \in SessionIds : StopFlag(s)
    \/ \E s \in SessionIds, dbOk \in BOOLEAN : StopDb(s, dbOk)
    \/ \E s \in SessionIds : StopEmit(s)
    \/ \E c \in Runs : ProcExit(c)

\* The state after run() in lib.rs, with room for MaxChildren children.
TeamSpec == Startup(MaxChildren) /\ [][TeamNext]_vars

\* ---------------------------------------------------------- text and lines
\* A Rust str is a sequence of characters, each one of them encoded in UTF-8
\* on one or more bytes. A character is a one-letter string here, and
\* "U+00E9" stands for the letter e with an acute accent, which takes two
\* bytes.
Width(c) == IF c = "U+00E9" THEN 2 ELSE 1

\* str::len(): the number of bytes (every character here takes one or two).
ByteLen(text) == Len(text) + Cardinality({i \in 1..Len(text) : Width(text[i]) = 2})

\* The characters str::trim() takes off both ends.
Whitespace == {" ", "\t"}
TrimSeq(text) ==
    LET keep == {i \in 1..Len(text) : text[i] \notin Whitespace}
        first == CHOOSE i \in 1..Len(text) :
                    /\ text[i] \notin Whitespace
                    /\ \A j \in 1..(i - 1) : text[j] \in Whitespace
        last == CHOOSE i \in 1..Len(text) :
                    /\ text[i] \notin Whitespace
                    /\ \A j \in (i + 1)..Len(text) : text[j] \in Whitespace
    IN IF keep = {} THEN <<>> ELSE SubSeq(text, first, last)

\* str::to_lowercase(), on the letters the inputs below are written with.
LowerMap ==
    LET Uppers == <<"A", "B", "C", "D", "E", "F", "G", "H", "I", "J", "K", "L", "M",
                    "N", "O", "P", "Q", "R", "S", "T", "U", "V", "W", "X", "Y", "Z">>
        Lowers == <<"a", "b", "c", "d", "e", "f", "g", "h", "i", "j", "k", "l", "m",
                    "n", "o", "p", "q", "r", "s", "t", "u", "v", "w", "x", "y", "z">>
    IN  [c \in {Uppers[i] : i \in 1..26} |-> Lowers[CHOOSE i \in 1..26 : Uppers[i] = c]]
LowerChar(c) == IF c \in DOMAIN LowerMap THEN LowerMap[c] ELSE c
ToLowercase(text) == [i \in 1..Len(text) |-> LowerChar(text[i])]

\* str::contains(pattern) and str::ends_with(char).
Contains(text, pattern) ==
    \E i \in 1..(Len(text) - Len(pattern) + 1) :
        \A j \in 1..Len(pattern) : text[i + j - 1] = pattern[j]
EndsWith(text, c) == Len(text) > 0 /\ text[Len(text)] = c

Repeat(c, n) == [i \in 1..n |-> c]

\* A serde_json::Value, as far as the program looks into it: whether it is
\* an object, and its fields type, session_id, result, text and content,
\* each absent, a string or a number; blocks is message.content, the array
\* of content blocks of an assistant message (empty when there is none).
\* A type or session id is a whole string, a text is a sequence of
\* characters.
TNone == [k |-> "none", s |-> ""]
TNum == [k |-> "num", s |-> ""]
TStr(x) == [k |-> "str", s |-> x]
JNone == [k |-> "none", s |-> <<>>]
JNum == [k |-> "num", s |-> <<>>]
JStr(text) == [k |-> "str", s |-> text]

\* A JSON value looked at as a number: k is "none" when the key is missing,
\* "int" for the integer n, "float" for the number n + 0.5, "str" for a
\* string.
Num(k, n) == [k |-> k, n |-> n]

EmptyObject ==
    [obj |-> TRUE, type |-> TNone, session_id |-> TNone,
     result |-> JNone, text |-> JNone, content |-> JNone, blocks |-> <<>>,
     total_tokens |-> Num("none", 0), input_tokens |-> Num("none", 0),
     output_tokens |-> Num("none", 0), cost_usd |-> Num("none", 0),
     cost |-> Num("none", 0)]
\* A JSON document that is not an object, such as 42: Value::get finds no
\* field in it.
NotAnObject == [EmptyObject EXCEPT !.obj = FALSE]
Typed(x) == [EmptyObject EXCEPT !.type = TStr(x)]

\* A line of the child's stdout: its characters, and what
\* serde_json::from_str makes of the trimmed line: json says whether it is
\* a JSON document, value is the document. The characters of a JSON line
\* are cut down to its braces.
TextLine(text) == [raw |-> text, json |-> FALSE, value |-> NotAnObject]
JsonLine(v) == [raw |-> <<"{", "}">>, json |-> TRUE, value |-> v]

\* ---------------------------- parse_claude_output, parse_codex_output
NoEvent == [some |-> FALSE, event_type |-> "", payload |-> NotAnObject, timestamp |-> 0]

\* value.get("type").and_then(|v| v.as_str()).unwrap_or(fallback)
TypeOr(value, fallback) ==
    IF value.obj /\ value.type.k = "str" THEN value.type.s ELSE fallback

\* serde_json::json!({ "text": trimmed })
TextPayload(trimmed) == [EmptyObject EXCEPT !.text = JStr(trimmed)]

ParseOutputNoTrim(line, now, fallback) ==
    IF line.raw = <<>> THEN NoEvent
    ELSE IF line.json
         THEN [some |-> TRUE, event_type |-> TypeOr(line.value, fallback),
               payload |-> line.value, timestamp |-> now]
         ELSE [some |-> TRUE, event_type |-> fallback,
               payload |-> TextPayload(line.raw), timestamp |-> now]

\* The body the two parsers share; they differ in the fallback type.
ParseOutput(line, now, fallback) ==
    LET trimmed == TrimSeq(line.raw)
    IN  IF trimmed = <<>> THEN NoEvent
        ELSE IF line.json
             THEN [some |-> TRUE, event_type |-> TypeOr(line.value, fallback),
                   payload |-> line.value, timestamp |-> now]
             ELSE [some |-> TRUE, event_type |-> fallback,
                   payload |-> TextPayload(trimmed), timestamp |-> now]

parse_claude_output(line, now) == ParseOutput(line, now, "output")
parse_codex_output(line, now) == ParseOutput(line, now, "message")

\* ------------------------------------------------ normalize_codex_event
UnifiedTypeNoFunctionCall(event_type) ==
    CASE event_type \in {"plan", "thinking"} -> "thinking"
      [] event_type \in {"tool_call", "exec"} -> "tool_call"
      [] event_type \in {"tool_result", "function_result"} -> "tool_result"
      [] event_type \in {"patch", "apply", "file_edit"} -> "file_change"
      [] event_type = "error" -> "error"
      [] OTHER -> "output"

UnifiedType(event_type) ==
    CASE event_type \in {"plan", "thinking"} -> "thinking"
      [] event_type \in {"tool_call", "exec", "function_call"} -> "tool_call"
      [] event_type \in {"tool_result", "function_result"} -> "tool_result"
      [] event_type \in {"patch", "apply", "file_edit"} -> "file_change"
      [] event_type = "error" -> "error"
      [] OTHER -> "output"

normalize_codex_event(event) ==
    [event_type |-> UnifiedType(event.event_type), payload |-> event.payload,
     timestamp |-> event.timestamp, runtime |-> "codex"]

\* -------------------------------------------- detect_question_in_result
PromptPhrases ==
    { <<"w", "o", "u", "l", "d", " ", "y", "o", "u", " ", "l", "i", "k", "e">>,
      <<"s", "h", "a", "l", "l", " ", "i">>,
      <<"d", "o", " ", "y", "o", "u", " ", "w", "a", "n", "t">>,
      <<"p", "l", "e", "a", "s", "e", " ", "c", "o", "n", "f", "i", "r", "m">>,
      <<"l", "e", "t", " ", "m", "e", " ", "k", "n", "o", "w">>,
      <<"w", "h", "a", "t", " ", "s", "h", "o", "u", "l", "d", " ", "i">>,
      <<"w", "h", "i", "c", "h", " ", "o", "p", "t", "i", "o", "n">>,
      <<"s", "h", "o", "u", "l", "d", " ", "i">>,
      <<"c", "a", "n", " ", "i">>,
      <<"c", "o", "u", "l", "d", " ", "y", "o", "u">>,
      <<"a", "n", "y", " ", "p", "r", "e", "f", "e", "r", "e", "n", "c", "e">> }

DetectQuestionCaseSensitive(text) ==
    LET trimmed == TrimSeq(text)
    IN  IF trimmed = <<>> THEN FALSE
        ELSE \/ EndsWith(trimmed, "?")
             \/ \E phrase \in PromptPhrases : Contains(trimmed, phrase)

detect_question_in_result(text) ==
    LET trimmed == TrimSeq(text)
        ends_with_question == EndsWith(trimmed, "?")
        lower == ToLowercase(trimmed)
        has_prompt_phrase == \E phrase \in PromptPhrases : Contains(lower, phrase)
    IN  IF trimmed = <<>> THEN FALSE
        ELSE ends_with_question \/ has_prompt_phrase

\* Final texts as the tests of tasks.rs feed them, and some more.
Texts ==
    { <<"W", "o", "u", "l", "d", " ", "y", "o", "u", " ", "l", "i", "k", "e", " ", "m", "e", " ", "t", "o", " ", "p", "r", "o", "c", "e", "e", "d", "?">>,
      <<"W", "h", "a", "t", " ", "f", "i", "l", "e", " ", "s", "h", "o", "u", "l", "d", " ", "I", " ", "m", "o", "d", "i", "f", "y", "?">>,
      <<"I", " ", "c", "a", "n", " ", "f", "i", "x", " ", "t", "h", "i", "s", ".", " ", "W", "o", "u", "l", "d", " ", "y", "o", "u", " ", "l", "i", "k", "e", " ", "m", "e", " ", "t", "o", " ", "d", "o", " ", "i", "t", " ", "n", "o", "w", ".">>,
      <<"S", "h", "a", "l", "l", " ", "I", " ", "p", "r", "o", "c", "e", "e", "d", " ", "w", "i", "t", "h", " ", "t", "h", "e", " ", "r", "e", "f", "a", "c", "t", "o", "r", ".">>,
      <<"P", "l", "e", "a", "s", "e", " ", "c", "o", "n", "f", "i", "r", "m", " ", "t", "h", "e", " ", "c", "h", "a", "n", "g", "e", "s", " ", "a", "r", "e", " ", "c", "o", "r", "r", "e", "c", "t", ".">>,
      <<"L", "e", "t", " ", "m", "e", " ", "k", "n", "o", "w", " ", "i", "f", " ", "t", "h", "i", "s", " ", "a", "p", "p", "r", "o", "a", "c", "h", " ", "w", "o", "r", "k", "s", " ", "f", "o", "r", " ", "y", "o", "u", ".">>,
      <<"S", "h", "o", "u", "l", "d", " ", "I", " ", "a", "l", "s", "o", " ", "u", "p", "d", "a", "t", "e", " ", "t", "h", "e", " ", "t", "e", "s", "t", "s", ".">>,
      <<"D", "o", " ", "y", "o", "u", " ", "w", "a", "n", "t", " ", "m", "e", " ", "t", "o", " ", "a", "p", "p", "l", "y", " ", "t", "h", "e", " ", "f", "i", "x", ".">>,
      <<"D", "o", "n", "e", "!", " ", "A", "l", "l", " ", "t", "e", "s", "t", "s", " ", "p", "a", "s", "s", ".">>,
      <<"I", "'", "v", "e", " ", "u", "p", "d", "a", "t", "e", "d", " ", "t", "h", "e", " ", "f", "i", "l", "e", " ", "s", "u", "c", "c", "e", "s", "s", "f", "u", "l", "l", "y", ".">>,
      <<"T", "h", "e", " ", "f", "u", "n", "c", "t", "i", "o", "n", " ", "n", "o", "w", " ", "h", "a", "n", "d", "l", "e", "s", " ", "e", "d", "g", "e", " ", "c", "a", "s", "e", "s", ".">>,
      <<>>,
      <<" ", " ", " ">>,
      <<"\t", " ">>,
      <<"W", "O", "U", "L", "D", " ", "Y", "O", "U", " ", "L", "I", "K", "E", " ", "m", "e", " ", "t", "o", " ", "c", "o", "n", "t", "i", "n", "u", "e">>,
      <<"S", "H", "A", "L", "L", " ", "I", " ", "p", "r", "o", "c", "e", "e", "d">>,
      <<"A", "n", "y", " ", "P", "r", "e", "f", "e", "r", "e", "n", "c", "e", " ", "o", "n", " ", "t", "h", "e", " ", "a", "p", "p", "r", "o", "a", "c", "h">>,
      <<"I", " ", "h", "a", "v", "e", " ", "f", "i", "n", "i", "s", "h", "e", "d", " ", "t", "h", "e", " ", "r", "e", "f", "a", "c", "t", "o", "r", ".">>,
      <<"D", "o", "n", "e", ",", " ", "3", " ", "t", "e", "s", "t", "s", " ", "a", "d", "d", "e", "d", ".">>,
      <<"T", "e", "l", "l", " ", "m", "e", " ", "W", "h", "a", "t", " ", "S", "h", "o", "u", "l", "d", " ", "I", " ", "n", "a", "m", "e", " ", "i", "t">>,
      <<"W", "h", "i", "c", "h", " ", "O", "p", "t", "i", "o", "n", " ", "f", "i", "t", "s">>,
      <<"C", "a", "n", " ", "I", " ", "d", "e", "l", "e", "t", "e", " ", "i", "t">>,
      <<"C", "o", "u", "l", "d", " ", "Y", "o", "u", " ", "c", "h", "e", "c", "k">>,
      <<"Y", "o", "u", " ", "s", "h", "o", "u", "l", "d", " ", "i", "n", "s", "t", "a", "l", "l", " ", "i", "t", " ", "f", "i", "r", "s", "t", ".">>,
      <<"I", "s", " ", "i", "t", " ", "o", "k", "?", " ", " ">>,
      <<"?">>,
      <<"W", "h", "y", "?", " ", "B", "e", "c", "a", "u", "s", "e", " ", "i", "t", " ", "f", "a", "i", "l", "e", "d", ".">>,
      <<"s", "h", "a", "l", "l", " ", " ", "i", " ", "g", "o", " ", "o", "n">>,
      <<"V", "o", "u", "l", "e", "z", "-", "v", "o", "u", "s", " ", "c", "o", "n", "t", "i", "n", "u", "e", "r", " ", "U+00E9", "?">>,
      <<"c", "a", "n", "\t", "i">> }

\* ---------------------------------------------- build_codex_team_prompt
\* The prompt is kept as its lines, and a line as the pieces that the
\* format strings put together: fixed text, and the strings of the plan.
\* "U+2014" stands for the em dash of the phase heading.
DecimalOf(n) == <<"0", "1", "2", "3", "4", "5", "6", "7", "8", "9">>[n + 1]

\* "start immediately", or format!("after {}", node.depends_on.join(", "))
Deps(node) ==
    LET ids == node.depends_on
        joined == [i \in 1..(2 * Len(ids) - 1) |->
                      IF i % 2 = 1 THEN ids[(i + 1) \div 2] ELSE ", "]
    IN  IF ids = <<>> THEN <<"start immediately">> ELSE <<"after ">> \o joined

\* Variant: the phases are numbered by their index, from 0.
PhaseBlockFromZero(index, role) ==
    << <<"### Phase ", DecimalOf(index - 1), " ", "U+2014", " ", role.name>>,
       <<role.focus>>,
       <<>> >>

\* format!("### Phase {} \u{2014} {}\n{}\n\n", index + 1, role.name, role.focus),
\* for the role at position index of plan.roles (counted from 1 here).
PhaseBlock(index, role) ==
    << <<"### Phase ", DecimalOf(index), " ", "U+2014", " ", role.name>>,
       <<role.focus>>,
       <<>> >>

\* format!("- [{}] {} ({})\n", node.id, node.label, deps)
OrderEntry(node) == <<"- [", node.id, "] ", node.label, " (">> \o Deps(node) \o <<")">>

RECURSIVE Flatten(_)
Flatten(blocks) == IF blocks = <<>> THEN <<>> ELSE Head(blocks) \o Flatten(Tail(blocks))

build_codex_team_prompt(task, plan) ==
    << <<"Complete the following task with a structured approach:">>, <<>>,
       <<"## Task">>, <<task>>, <<>>,
       <<"## Approach (", DecimalOf(Len(plan.roles)), " phases)">>, <<>> >>
    \o Flatten([i \in 1..Len(plan.roles) |-> PhaseBlock(i, plan.roles[i])])
    \o (IF plan.task_graph = <<>> THEN <<>>
        ELSE << <<"## Execution Order">>, <<>> >>
             \o [i \in 1..Len(plan.task_graph) |-> OrderEntry(plan.task_graph[i])])
    \o << <<>>,
          <<"## Instructions">>,
          <<"Execute each phase in order. ",
            "Complete all dependencies before starting the next phase. ",
            "Report progress after each phase completes.">> >>

\* ---------------------------------------------------- build_team_prompt
\* The prompt of the Claude adapter, kept in the same way: one line
\* "- **name**: focus" per role, and under "## Task Graph" one line
\* "- [id] label (assigned: assignee, depends on: deps)" per node, where deps
\* is "none" or node.depends_on.join(", ").
build_team_prompt(task, plan) ==
    LET RoleLine(role) == <<"- **", role.name, "**: ", role.focus>>
        Joined(ids) == [i \in 1..(2 * Len(ids) - 1) |->
                           IF i % 2 = 1 THEN ids[(i + 1) \div 2] ELSE ", "]
        GraphEntry(node) ==
            <<"- [", node.id, "] ", node.label, " (assigned: ", node.assignee,
              ", depends on: ">>
            \o (IF node.depends_on = <<>> THEN <<"none">> ELSE Joined(node.depends_on))
            \o <<")">>
    IN  << <<"You are leading a team to complete the following task:">>, <<>>,
           <<"## Task">>, <<task>>, <<>>,
           <<"## Team (", DecimalOf(plan.agent_count), " agents)">>, <<>> >>
        \o [i \in 1..Len(plan.roles) |-> RoleLine(plan.roles[i])]
        \o (IF plan.task_graph = <<>> THEN <<>>
            ELSE << <<>>, <<"## Task Graph">>, <<>> >>
                 \o [i \in 1..Len(plan.task_graph) |-> GraphEntry(plan.task_graph[i])])
        \o << <<>>,
              <<"## Instructions">>,
              <<"Spawn teammates for each role above. ",
                "Coordinate their work following the dependency graph. ",
                "Each teammate should focus solely on their assigned role. ",
                "Report progress as each sub-task completes.">> >>

\* The roles and nodes of sample_team_plan, and plans made of them: the
\* first n roles with no graph, with the nodes in a linear chain, with
\* independent nodes, and with a last node that waits for all the others.
SampleRoles ==
    << [name |-> "Researcher", focus |-> "Research competitors"],
       [name |-> "Implementer", focus |-> "Build the integration"],
       [name |-> "Tester", focus |-> "Write and run tests"] >>
Node(i, depends_on) ==
    [id |-> <<"task-1", "task-2", "task-3">>[i],
     label |-> <<"Research and gather info", "Implement the solution", "Test and verify">>[i],
     assignee |-> SampleRoles[i].name,
     depends_on |-> depends_on]
ChainGraph(n) == [i \in 1..n |-> Node(i, IF i = 1 THEN <<>> ELSE <<Node(i - 1, <<>>).id>>)]
Plans ==
    LET FreeGraph(n) == [i \in 1..n |-> Node(i, <<>>)]
        FanInGraph(n) ==
            [i \in 1..n |->
                Node(i, IF i < n THEN <<>> ELSE [j \in 1..(n - 1) |-> Node(j, <<>>).id])]
    IN  { [agent_count |-> n, roles |-> SubSeq(SampleRoles, 1, n), task_graph |-> g] :
            n \in 1..3,
            g \in UNION {{<<>>, ChainGraph(m), FreeGraph(m), FanInGraph(m)} : m \in 1..3} }

\* -------------------------------------------------- update_session_status
\* The sessions table as a function from ids to rows [st, ended_at, sum]:
\* st "none" when the table has no row for the id, ended_at 0 and sum "null"
\* for SQL NULL. The call gives the table after the UPDATE and Ok(rows > 0).
\* Variant: ended_at is set on every update.
UpdateAlwaysEnds(table, id, st, sum, now) ==
    IF table[id].st = "none" THEN [table |-> table, updated |-> FALSE]
    ELSE [table |-> [table EXCEPT ![id] = [st |-> st, ended_at |-> now,
                                           sum |-> IF sum = "null" THEN @.sum ELSE sum]],
          updated |-> TRUE]

\* UPDATE sessions SET status = ?1, ended_at = COALESCE(?2, ended_at),
\* summary = COALESCE(?3, summary) WHERE id = ?4, where ?2 is the time of the
\* call when matches!(status, "completed" | "error" | "cancelled").
update_session_status(table, id, st, sum, now) ==
    IF table[id].st = "none" THEN [table |-> table, updated |-> FALSE]
    ELSE [table |-> [table EXCEPT ![id] =
                        [st |-> st,
                         ended_at |-> IF st \in {"completed", "error", "cancelled"}
                                      THEN now ELSE @.ended_at,
                         sum |-> IF sum = "null" THEN @.sum ELSE sum]],
          updated |-> TRUE]

\* Tables of two ids whose rows are missing, fresh (create_session), ended
\* with a summary, or resumed after having ended; and the calls on them.
UpdateCalls ==
    LET Rows == { [st |-> "none", ended_at |-> 0, sum |-> "null"],
                  [st |-> "active", ended_at |-> 0, sum |-> "null"],
                  [st |-> "completed", ended_at |-> 1700000000, sum |-> "All done"],
                  [st |-> "active", ended_at |-> 1700000000, sum |-> "All done"] }
    IN  { [table |-> [s \in RegIds |-> IF s = "s1" THEN r1 ELSE r2],
           id |-> id, status |-> st, summary |-> sum] :
            r1 \in Rows, r2 \in Rows, id \in RegIds,
            st \in {"active", "completed", "error", "cancelled", "failed"},
            sum \in {"null", "Something broke"} }

\* ----------------------------------------- the pure functions on their own
\* Each behaviour takes one input and applies one function to it, as the
\* unit tests of the adapters and of tasks.rs do.

\* chrono::Utc::now().timestamp() at the moment of a call.
Times == {1700000000, 1700000001}

\* Lines as the tests of the adapters feed them, and some more.
ParseLines ==
    { TextLine(<<>>), TextLine(<<" ", " ", " ">>), TextLine(<<"\t", " ", " ">>),
      TextLine(<<"h", "e", "l", "l", "o">>), TextLine(<<" ", " ", "b", "u", "i", "l", "d", " ", "o", "k", " ", "\t">>), TextLine(<<"e", "r", "r", "o", "r", ":", " ", "E", "0", "3", "0", "8">>),
      JsonLine(Typed("tool_use")), JsonLine(Typed("result")), JsonLine(Typed("plan")),
      JsonLine(Typed("")),
      JsonLine(EmptyObject), JsonLine([EmptyObject EXCEPT !.type = TNum]),
      JsonLine([EmptyObject EXCEPT !.text = JStr(<<"h", "e", "l", "l", "o">>)]),
      JsonLine(NotAnObject),
      [JsonLine(Typed("thinking")) EXCEPT !.raw = <<" ", "{", "}", " ", " ">>],
      [JsonLine(EmptyObject) EXCEPT !.raw = <<"\t", "{", "}">>] }

\* Events with the types of the mapping table, and with some outside it.
CodexEvents ==
    { [some |-> TRUE, event_type |-> ty, payload |-> p, timestamp |-> now] :
        ty \in {"plan", "thinking", "tool_call", "exec", "function_call", "tool_result",
                "function_result", "patch", "apply", "file_edit", "error",
                "message", "output", "result", "system", "Plan", "tool_use", ""},
        p \in {EmptyObject, TextPayload(<<"h", "e", "l", "l", "o">>)},
        now \in Times }

\* The rest of the program stands still while a function or a single pump
\* is looked at.
Detached ==
    /\ status = [s \in SessionIds |-> "none"]
    /\ runtime = [s \in SessionIds |-> "none"]
    /\ token = [s \in SessionIds |-> "null"]
    /\ summary = [s \in SessionIds |-> "null"]
    /\ processes = [s \in SessionIds |-> 0]
    /\ teams = [s \in SessionIds |-> {}]
    /\ interactive = {}
    /\ proc = [r \in 1..MaxRuns |-> NoProc]
    /\ pump = [r \in 1..MaxRuns |-> NoPump]
    /\ nruns = 0
    /\ startCall = [s \in SessionIds |-> IdleCall]
    /\ stopCall = [s \in SessionIds |-> IdleStop]
    /\ transCall = [s \in SessionIds |-> IdleTrans]
    /\ contCall = [s \in SessionIds |-> [pc |-> "idle", res |-> "none", run |-> 0]]
    /\ ncalls = 0
    /\ emitted = [s \in SessionIds |-> [sig \in Signals |-> 0]]
    /\ handedOff = {}
    /\ flagRun = [s \in SessionIds |-> 0]
    /\ lastCall = NoCall
detachedVars == <<dbVars, regVars, interactive, proc, pump, nruns, callVars, ncalls,
                  emitted, histVars, lastCall>>

ApplyInit ==
    /\ Detached
    /\ stream = NoStream
    /\ locks = NoLocks
    /\ \/ \E line \in ParseLines, now \in Times :
             applied = [f |-> "input", kind |-> "line", arg |-> line, now |-> now]
       \/ \E event \in CodexEvents :
             applied = [f |-> "input", kind |-> "event", arg |-> event, now |-> 0]
       \/ \E text \in Texts :
             applied = [f |-> "input", kind |-> "text", arg |-> text, now |-> 0]
       \/ \E plan \in Plans :
             applied = [f |-> "input", kind |-> "plan", arg |-> plan, now |-> 0]
       \/ \E call \in UpdateCalls :
             applied = [f |-> "input", kind |-> "update", arg |-> call, now |-> 1700000001]

Pending(kind) == applied.f = "input" /\ applied.kind = kind
Apply(name, result) ==
    /\ applied' = [f |-> name, kind |-> applied.kind, arg |-> applied.arg,
                   now |-> applied.now, res |-> result]
    /\ UNCHANGED <<detachedVars, stream, locks>>

ApplyParseClaude ==
    /\ Pending("line")
    /\ Apply("parse_claude_output", parse_claude_output(applied.arg, applied.now))

ApplyParseCodex ==
    /\ Pending("line")
    /\ Apply("parse_codex_output", parse_codex_output(applied.arg, applied.now))

ApplyNormalize ==
    /\ Pending("event")
    /\ Apply("normalize_codex_event", normalize_codex_event(applied.arg))

ApplyDetect ==
    /\ Pending("text")
    /\ Apply("detect_question_in_result", detect_question_in_result(applied.arg))

ApplyBuildPrompt ==
    /\ Pending("plan")
    /\ Apply("build_codex_team_prompt", build_codex_team_prompt("Do the thing", applied.arg))

ApplyBuildTeamPrompt ==
    /\ Pending("plan")
    /\ Apply("build_team_prompt", build_team_prompt("Do the thing", applied.arg))

ApplyUpdateStatus ==
    /\ Pending("update")
    /\ Apply("update_session_status",
             update_session_status(applied.arg.table, applied.arg.id, applied.arg.status,
                                   applied.arg.summary, applied.now))

ApplyNext ==
    \/ ApplyParseClaude
    \/ ApplyParseCodex
    \/ ApplyNormalize
    \/ ApplyDetect
    \/ ApplyBuildPrompt
    \/ ApplyBuildTeamPrompt
    \/ ApplyUpdateStatus

ApplySpec == ApplyInit /\ [][ApplyNext]_vars

\* --------------------------------- the summary and lastResult of a result
\* The two numbers of the cut: text.len() > 500 and &text[..497].
SummaryLimit == 500
SummaryKept == 497
\* The longest run of whole characters at the front of text that fits into
\* n bytes, found by halving lo..hi: k is its length in characters, and at
\* says whether it takes exactly n bytes, that is, whether byte n is where a
\* character starts (or the end of the text).
RECURSIVE Boundary(_, _, _, _)
Boundary(text, n, lo, hi) ==
    IF lo = hi THEN [at |-> ByteLen(SubSeq(text, 1, lo)) = n, k |-> lo]
    ELSE LET mid == (lo + hi + 1) \div 2
         IN  IF ByteLen(SubSeq(text, 1, mid)) <= n
             THEN Boundary(text, n, mid, hi)
             ELSE Boundary(text, n, lo, mid - 1)

\* if text.len() > 500 { format!("{}...", &text[..497]) } else { text }
\* The slice &text[..497] panics unless byte 497 is where a character starts.
Truncate(text) ==
    LET cut == Boundary(text, SummaryKept, 0, Len(text))
    IN  IF ByteLen(text) > SummaryLimit
        THEN IF cut.at
             THEN [panic |-> FALSE, text |-> SubSeq(text, 1, cut.k) \o <<".", ".", ".">>]
             ELSE [panic |-> TRUE, text |-> <<>>]
        ELSE [panic |-> FALSE, text |-> text]

\* An Option<String>.
NoText == [some |-> FALSE, text |-> <<>>]
SomeText(text) == [some |-> TRUE, text |-> text]
NoPayload == [some |-> FALSE, value |-> NotAnObject]

\* r.get("result").and_then(|v| v.as_str())
\*     .or_else(|| r.get("text")..).or_else(|| r.get("content")..)
ResultText(payload) ==
    IF ~payload.some \/ ~payload.value.obj THEN NoText
    ELSE IF payload.value.result.k = "str" THEN SomeText(payload.value.result.s)
    ELSE IF payload.value.text.k = "str" THEN SomeText(payload.value.text.s)
    ELSE IF payload.value.content.k = "str" THEN SomeText(payload.value.content.s)
    ELSE NoText

\* The loop over message.content of an assistant event: every text block
\* whose text is not blank overwrites last_assistant_text.
AssistantText(value, before) ==
    LET good == {i \in 1..Len(value.blocks) :
                    /\ value.blocks[i].type = TStr("text")
                    /\ value.blocks[i].text.k = "str"
                    /\ TrimSeq(value.blocks[i].text.s) # <<>>}
        last == CHOOSE i \in good : \A j \in good : j <= i
    IN  IF ~value.obj \/ good = {} THEN before
        ELSE SomeText(value.blocks[last].text.s)

\* ------------------- stream_claude_output, stream_codex_output, by line
\* One pump, from its first line to its return, on a session that is
\* neither cancelled nor handed to a terminal: what it reads, what it
\* emits, what it stores. The child writes at most MaxLines lines.
MaxLines == 2

Result(r, t, c) == [Typed("result") EXCEPT !.result = r, !.text = t, !.content = c]

DoneText == <<"D", "o", "n", "e", ",", " ", "3", " ", "t", "e", "s", "t", "s", " ", "a", "d", "d", "e", "d", ".">>
WhichText == <<"W", "h", "i", "c", "h", " ", "f", "i", "l", "e", "?">>

StreamLines ==
    { TextLine(<<" ", " ">>),
      TextLine(<<" ", " ", "b", "u", "i", "l", "d", " ", "o", "k", " ", "\t">>),
      JsonLine([Typed("system") EXCEPT !.session_id = TStr("tok")]),
      JsonLine(Typed("plan")),
      JsonLine(Result(JStr(DoneText), JNone, JNone)),
      JsonLine(Result(JNum,
                      JStr(<<"S", "h", "o", "u", "l", "d", " ", "I", " ", "a", "l", "s", "o",
                           " ", "u", "p", "d", "a", "t", "e", " ", "t", "h", "e", " ", "t", "e", "s", "t", "s", ".">>),
                      JStr(DoneText))),
      JsonLine(Result(JNone, JNone, JNone)),
      JsonLine(Result(JStr(<<>>), JStr(WhichText), JNone)),
      JsonLine([Typed("assistant") EXCEPT
                   !.blocks = <<[type |-> TStr("text"), text |-> JStr(WhichText)],
                                [type |-> TStr("text"), text |-> JStr(<<" ">>)],
                                [type |-> TStr("tool_use"), text |-> JNone]>>]),
      JsonLine(Result(JStr(Repeat("a", 501)), JNone, JNone)),
      JsonLine(Result(JStr(<<"a">> \o Repeat("U+00E9", 250)), JNone, JNone)),
      JsonLine(Result(JNone, JNone, JStr(Repeat("U+00E9", 251)))) }

NoCur == [event_type |-> "", payload |-> NotAnObject, timestamp |-> 0]
NotCompleted == [sent |-> FALSE, keys |-> {}, needsInput |-> FALSE, lastResult |-> NoText]

StreamInit ==
    /\ Detached
    /\ applied = NoApplied
    /\ locks = NoLocks
    /\ \E rt \in {"claude", "codex"} :
          stream = [pc |-> "read", rt |-> rt, pos |-> 0, blanks |-> {}, cur |-> NoCur,
                    out |-> <<>>, stored |-> <<>>, claude_sid |-> TNone, ids |-> <<>>,
                    last_result_payload |-> NoPayload, last_assistant_text |-> NoText,
                    summary |-> NoText, completed |-> NotCompleted, poisoned |-> FALSE,
                    ended |-> "no", found |-> "no",
                    usage |-> [written |-> FALSE, tokens |-> 0, cost |-> Num("none", 0)]]

StreamStep(new) ==
    /\ stream' = new
    /\ UNCHANGED <<detachedVars, applied, locks>>

\* chrono::Utc::now().timestamp() when the line is parsed.
Clock == 1700000000 + stream.pos

\* Variant: the session_id of an event of any type is taken.
HasSessionIdAnyType(rt, event) ==
    rt = "claude" /\ event.payload.obj /\ event.payload.session_id.k = "str"

\* Claude pump: if event.event_type == "system" { if let Some(claude_sid) =
\* event.payload.get("session_id").and_then(|v| v.as_str()) { .. } }
HasSessionId(rt, event) ==
    /\ rt = "claude"
    /\ event.event_type = "system"
    /\ event.payload.obj
    /\ event.payload.session_id.k = "str"

\* The child writes one more line; it is read and parsed, and a blank line
\* goes no further. pos counts the lines read, blanks is the set of those
\* that parsed to None (history). The Claude pump stores and announces the
\* session_id of a system event before it emits the event; dbOk:
\* db_state.0.lock() gave the connection.
StreamRead(line, dbOk) ==
    /\ stream.pc = "read"
    /\ stream.pos < MaxLines
    /\ LET event == IF stream.rt = "claude" THEN parse_claude_output(line, Clock)
                    ELSE parse_codex_output(line, Clock)
           cur == IF stream.rt = "claude"
                  THEN [event_type |-> event.event_type, payload |-> event.payload,
                        timestamp |-> event.timestamp]
                  ELSE [event_type |-> normalize_codex_event(event).event_type,
                        payload |-> normalize_codex_event(event).payload,
                        timestamp |-> normalize_codex_event(event).timestamp]
           sid == IF event.payload.obj THEN event.payload.session_id ELSE TNone
           hasSid == HasSessionId(stream.rt, event)
       IN  IF ~event.some
           THEN StreamStep([stream EXCEPT !.pos = @ + 1, !.blanks = @ \cup {stream.pos + 1}])
           ELSE StreamStep([stream EXCEPT
                              !.cur = cur,
                              !.pc = "emit",
                              !.claude_sid = IF hasSid /\ dbOk THEN sid ELSE @,
                              !.ids = IF hasSid THEN Append(@, sid.s) ELSE @])

\* app.emit("elf:event", {sessionId, eventType, payload, timestamp [, runtime]})
\* The history of emitted and of stored events keeps the type of an event
\* and the number of the line it came from; its payload is the one the
\* parser gave (stream.cur.payload) and is not repeated there.
StreamEmit ==
    /\ stream.pc = "emit"
    /\ StreamStep([stream EXCEPT
                     !.out = Append(@, [eventType |-> stream.cur.event_type,
                                        line |-> stream.pos + 1]),
                     !.pc = "persist"])

\* Variant: the stored events are kept newest first.
StreamPersistNewestFirst(dbOk) ==
    /\ stream.pc = "persist"
    /\ StreamStep([stream EXCEPT
                     !.stored = IF dbOk
                                THEN <<[eventType |-> stream.cur.event_type,
                                        line |-> stream.pos + 1]>> \o @
                                ELSE @,
                     !.last_result_payload =
                         IF stream.rt = "claude" /\ stream.cur.event_type = "result"
                         THEN [some |-> TRUE, value |-> stream.cur.payload] ELSE @,
                     !.last_assistant_text =
                         IF stream.rt = "claude" /\ stream.cur.event_type = "assistant"
                         THEN AssistantText(stream.cur.payload, @) ELSE @,
                     !.cur = NoCur,
                     !.pos = @ + 1,
                     !.pc = "read"])

\* if let Ok(conn) = db_state.0.lock() { insert_event(..) }: dbOk says
\* whether the lock and the insert both succeeded; a failure is logged and
\* the loop goes on. The Claude pump then keeps the payload of a result
\* event and the text of an assistant event.
StreamPersist(dbOk) ==
    /\ stream.pc = "persist"
    /\ StreamStep([stream EXCEPT
                     !.stored = IF dbOk
                                THEN Append(@, [eventType |-> stream.cur.event_type,
                                                line |-> stream.pos + 1])
                                ELSE @,
                     !.last_result_payload =
                         IF stream.rt = "claude" /\ stream.cur.event_type = "result"
                         THEN [some |-> TRUE, value |-> stream.cur.payload] ELSE @,
                     !.last_assistant_text =
                         IF stream.rt = "claude" /\ stream.cur.event_type = "assistant"
                         THEN AssistantText(stream.cur.payload, @) ELSE @,
                     !.cur = NoCur,
                     !.pos = @ + 1,
                     !.pc = "read"])

\* What the pump finds after its loop: the session flagged interactive, its
\* stored status cancelled, or neither.
Found == {"no", "interactive", "cancelled"}

\* The loop is left. The Claude pump returns when is_interactive(session_id)
\* holds or the stored status is cancelled; otherwise, and always for Codex,
\* the pump goes on to complete the session. ended records why the loop
\* was left, found what the pump then found (history).
StreamLoopExit(why, found) ==
    /\ stream.pc = "read"
    /\ StreamStep([stream EXCEPT
                     !.pc = IF stream.rt = "claude" /\ found # "no" THEN "done"
                            ELSE "eos_db",
                     !.ended = why,
                     !.found = found])

\* reader.lines() ends: the child closed its stdout.
StreamEof(found) == StreamLoopExit("eof", found)

\* Variant: a read error ends the thread.
StreamReadErrorReturns(found) ==
    /\ stream.pc = "read"
    /\ StreamStep([stream EXCEPT !.pc = "done", !.ended = "error", !.found = found])

\* Err(error) => { log::warn!(..); break; }: the loop ends in the same way.
StreamReadError(found) == StreamLoopExit("error", found)

\* Variant: total_tokens counts only when it is positive.
UsagePositiveTotalOnly(result) ==
    LET int(v) == IF v.k = "int" THEN v.n ELSE 0
        input == int(result.input_tokens)
        output == int(result.output_tokens)
        cost == IF result.cost_usd.k \in {"int", "float"} THEN result.cost_usd
                ELSE IF result.cost.k \in {"int", "float"} THEN result.cost
                ELSE Num("int", 0)
        tokens == IF result.total_tokens.k = "int" /\ result.total_tokens.n > 0
                  THEN result.total_tokens.n
                  ELSE IF input > 0 \/ output > 0 THEN input + output ELSE 0
    IN  [tokens |-> tokens, cost |-> cost,
         write |-> tokens > 0 \/ cost.k = "float" \/ cost.n > 0]

\* cost: cost_usd, or else cost, as_f64, or else 0.0. tokens: total_tokens
\* as_i64, or else the sum of input_tokens and output_tokens (each as_i64 or
\* 0) when one of them is positive, or else 0. as_i64 gives None for a
\* number that is not an integer, as_f64 takes every number.
\* write: if tokens > 0 || cost > 0.0.
Usage(result) ==
    LET int(v) == IF v.k = "int" THEN v.n ELSE 0
        input == int(result.input_tokens)
        output == int(result.output_tokens)
        cost == IF result.cost_usd.k \in {"int", "float"} THEN result.cost_usd
                ELSE IF result.cost.k \in {"int", "float"} THEN result.cost
                ELSE Num("int", 0)
        tokens == IF result.total_tokens.k = "int" THEN result.total_tokens.n
                  ELSE IF input > 0 \/ output > 0 THEN input + output ELSE 0
    IN  [tokens |-> tokens, cost |-> cost,
         write |-> tokens > 0 \/ cost.k = "float" \/ cost.n > 0]

\* The summary that goes with status completed: the result text cut down,
\* or "Task completed" (always, for Codex).
Summary(rt, payload) ==
    IF rt = "claude" /\ ResultText(payload).some
    THEN Truncate(ResultText(payload).text)
    ELSE [panic |-> FALSE,
          text |-> <<"T", "a", "s", "k", " ", "c", "o", "m",
                   "p", "l", "e", "t", "e", "d">>]

\* if let Ok(conn) = db_state.0.lock() { if let Some(ref result) =
\* last_result_payload { .. update_session_usage(..) } ..
\* update_session_status(.., "completed", summary) }. Only the Claude pump
\* has a last_result_payload. A panic inside the block ends the thread and
\* leaves the mutex poisoned; the usage was written before.
StreamEosDb(dbOk) ==
    /\ stream.pc = "eos_db"
    /\ LET sum == Summary(stream.rt, stream.last_result_payload)
           result == stream.last_result_payload
           usage == IF result.some /\ Usage(result.value).write
                    THEN [written |-> TRUE, tokens |-> Usage(result.value).tokens,
                          cost |-> Usage(result.value).cost]
                    ELSE stream.usage
       IN  IF ~dbOk THEN StreamStep([stream EXCEPT !.pc = "eos_emit"])
           ELSE IF sum.panic
                THEN StreamStep([stream EXCEPT !.pc = "panicked", !.poisoned = TRUE,
                                               !.usage = usage])
                ELSE StreamStep([stream EXCEPT !.summary = SomeText(sum.text),
                                               !.usage = usage,
                                               !.pc = "eos_emit"])

\* extracted_text: the result text, or else last_assistant_text.
ExtractedResultOnly(payload, assistant) == ResultText(payload)

ExtractedText(payload, assistant) ==
    IF ResultText(payload).some THEN ResultText(payload) ELSE assistant

\* app.emit("session:completed", ..): Claude sends sessionId, needsInput
\* and lastResult, Codex sends sessionId alone.
StreamEosEmit ==
    /\ stream.pc = "eos_emit"
    /\ LET extracted == ExtractedText(stream.last_result_payload, stream.last_assistant_text)
           needs_input == IF extracted.some THEN detect_question_in_result(extracted.text)
                          ELSE FALSE
           cut == IF extracted.some THEN Truncate(extracted.text)
                  ELSE [panic |-> FALSE, text |-> <<>>]
       IN  IF stream.rt = "codex"
           THEN StreamStep([stream EXCEPT
                              !.completed = [NotCompleted EXCEPT !.sent = TRUE,
                                                                 !.keys = {"sessionId"}],
                              !.pc = "done"])
           ELSE IF cut.panic
                THEN StreamStep([stream EXCEPT !.pc = "panicked"])
                ELSE StreamStep([stream EXCEPT
                                   !.completed =
                                       [sent |-> TRUE,
                                        keys |-> {"sessionId", "needsInput", "lastResult"},
                                        needsInput |-> needs_input,
                                        lastResult |-> IF extracted.some
                                                       THEN SomeText(cut.text) ELSE NoText],
                                   !.pc = "done"])

StreamNext ==
    \/ \E line \in StreamLines, dbOk \in BOOLEAN : StreamRead(line, dbOk)
    \/ StreamEmit
    \/ \E dbOk \in BOOLEAN : StreamPersist(dbOk)
    \/ StreamEof("no")
    \/ StreamReadError("no")
    \/ \E dbOk \in BOOLEAN : StreamEosDb(dbOk)
    \/ StreamEosEmit

StreamSpec == StreamInit /\ [][StreamNext]_vars

\* The same pump, on a session in any state, on the lines that matter for
\* what it keeps of the child's answers: system events with and without a
\* session_id, a session_id that is not a string, a session_id and token
\* counts on an event of another type, and result events with and without
\* token counts and costs.
TrackLines ==
    { TextLine(<<" ">>),
      JsonLine([Typed("system") EXCEPT !.session_id = TStr("tok-a")]),
      JsonLine([Typed("system") EXCEPT !.session_id = TStr("tok-b")]),
      JsonLine(Typed("system")),
      JsonLine([Typed("system") EXCEPT !.session_id = TNum]),
      JsonLine([Typed("assistant") EXCEPT !.session_id = TStr("tok-c"),
                                          !.total_tokens = Num("int", 50)]),
      JsonLine(Typed("result")),
      JsonLine([Typed("result") EXCEPT !.total_tokens = Num("int", 100),
                                       !.input_tokens = Num("int", 3),
                                       !.output_tokens = Num("int", 4)]),
      JsonLine([Typed("result") EXCEPT !.input_tokens = Num("int", 3),
                                       !.output_tokens = Num("int", 4),
                                       !.cost_usd = Num("float", 0)]),
      JsonLine([Typed("result") EXCEPT !.total_tokens = Num("int", 0),
                                       !.input_tokens = Num("int", 3),
                                       !.output_tokens = Num("int", 4)]),
      JsonLine([Typed("result") EXCEPT !.input_tokens = Num("int", 0),
                                       !.cost_usd = Num("str", 0),
                                       !.cost = Num("int", 2)]),
      JsonLine([Typed("result") EXCEPT !.total_tokens = Num("float", 12),
                                       !.input_tokens = Num("int", 3)]) }

TrackNext ==
    \/ \E line \in TrackLines, dbOk \in BOOLEAN : StreamRead(line, dbOk)
    \/ StreamEmit
    \/ \E dbOk \in BOOLEAN : StreamPersist(dbOk)
    \/ \E found \in Found : StreamEof(found)
    \/ \E found \in Found : StreamReadError(found)
    \/ \E dbOk \in BOOLEAN : StreamEosDb(dbOk)
    \/ StreamEosEmit

TrackSpec == StreamInit /\ [][TrackNext]_vars

\* ------------------------------------------------------------ the locks
\* ProcessManager.processes, ProcessManager.teams and DbState.0 are
\* std::sync::Mutex: lock() blocks while another thread holds the guard, and
\* also when the calling thread holds it itself. What a function does to
\* them is the sequence of its lock() calls and of the ends of the scopes
\* of their guards (a closing brace, a drop, a return), in program order.
\* A loop is followed through one iteration.
Locks == {"processes", "teams", "db"}

\* let guard = mutex.lock(); .. and the end of the guard's scope.
Scope(l) == << [a |-> "lock", l |-> l], [a |-> "unlock", l |-> l] >>

\* Variant: is_running keeps the guard of processes while it looks at teams.
IsRunningKeepsGuard ==
    << [a |-> "lock", l |-> "processes"], [a |-> "lock", l |-> "teams"],
       [a |-> "unlock", l |-> "teams"], [a |-> "unlock", l |-> "processes"] >>

\* is_running when the id is not in processes: drop(processes) comes before
\* self.teams.lock().
IsRunningLocks == Scope("processes") \o Scope("teams")

LockPrograms(f) ==
    LET P == Scope("processes")
        T == Scope("teams")
        D == Scope("db")
    IN  CASE f = "register" -> P
          [] f = "register_team" -> T
          [] f = "kill" -> P
          [] f = "kill_team" -> T
          [] f = "kill_all" -> P \o T
          [] f = "is_running" -> IsRunningLocks
          [] f = "is_running (found)" -> P
          [] f = "active_count" -> P \o T
          [] f = "start_task" -> D \o D \o D \o D \o P
          [] f = "stop_task" -> P \o D
          [] f = "start_team_task" -> D \o D \o D \o D \o P
          [] f = "stop_team_task" -> P \o T \o D
          [] f = "continue_task" -> D \o D \o P
          [] f = "transition_to_interactive" -> P
          [] f = "stream_claude_output" -> D \o D \o D \o D
          [] f = "stream_codex_output" -> D \o D

Functions ==
    {"register", "register_team", "kill", "kill_team", "kill_all", "is_running",
     "is_running (found)", "active_count", "start_task", "stop_task", "start_team_task",
     "stop_team_task", "continue_task", "transition_to_interactive",
     "stream_claude_output", "stream_codex_output"}

\* Two threads, a tauri command worker or a pump thread each, run one
\* function each.
LockThreads == {"t1", "t2"}

LockInit ==
    /\ Detached
    /\ stream = NoStream
    /\ applied = NoApplied
    /\ \E f1 \in Functions, f2 \in Functions :
          locks = [owner |-> [l \in Locks |-> "free"],
                   th |-> [t \in LockThreads |->
                              [f |-> IF t = "t1" THEN f1 ELSE f2,
                               prog |-> LockPrograms(IF t = "t1" THEN f1 ELSE f2),
                               pc |-> 1]]]

\* The next thing thread t does to a lock.
NextOp(t) == locks.th[t].prog[locks.th[t].pc]
Running(t) == locks.th[t].pc <= Len(locks.th[t].prog)

\* mutex.lock(): the thread goes on when the mutex is free.
Acquire(t) ==
    /\ Running(t)
    /\ NextOp(t).a = "lock"
    /\ locks.owner[NextOp(t).l] = "free"
    /\ locks' = [locks EXCEPT !.owner[NextOp(t).l] = t, !.th[t].pc = @ + 1]
    /\ UNCHANGED <<detachedVars, stream, applied>>

\* The guard goes out of scope.
Release(t) ==
    /\ Running(t)
    /\ NextOp(t).a = "unlock"
    /\ locks' = [locks EXCEPT !.owner[NextOp(t).l] = "free", !.th[t].pc = @ + 1]
    /\ UNCHANGED <<detachedVars, stream, applied>>

LockNext ==
    \/ \E t \in LockThreads : Acquire(t)
    \/ \E t \in LockThreads : Release(t)

LockSpec == LockInit /\ [][LockNext]_vars

\* ----------------------------------------------------------------- claims
Cancelled(s) == emitted[s]["session:cancelled"]
Completed(s) == emitted[s]["session:completed"]
Continued(s) == emitted[s]["session:continued"]

\* C1: when the stored status is cancelled as a stdout pump (of either
\* runtime) reaches end-of-stream, the end-of-stream handler does not
\* overwrite it with completed.
C1_CancelledNotOverwritten ==
    [][\A r \in Runs :
          (/\ pump[r].eosCancelled
           /\ pump[r].pc = "eos_write" /\ pump'[r].pc = "eos_emit"
           /\ status[proc[r].sid] = "cancelled")
          => status'[proc[r].sid] = "cancelled"]_vars

\* C2: a session started by start_task that has had one run gets exactly one
\* of session:cancelled and session:completed: never both, and one of them
\* once the run is over (its pump is done, no stop is in flight and the
\* stored status is terminal).
C2_ExactlyOneTerminalSignal ==
    \A s \in SessionIds :
        (startCall[s].res = "Ok" /\ Cardinality(RunsOf(s)) = 1) =>
            /\ ~(Cancelled(s) > 0 /\ Completed(s) > 0)
            /\ (/\ pump[CurRun(s)].pc = "done"
                /\ stopCall[s].pc = "idle"
                /\ status[s] \in Terminal)
               => (Cancelled(s) > 0 \/ Completed(s) > 0)

\* C3: a terminal status is never replaced by another terminal status.
C3_TerminalWrittenOnce ==
    [][\A s \in SessionIds :
          (status[s] \in {"completed", "error", "cancelled"}
           /\ status'[s] \in {"completed", "error", "cancelled"})
          => status'[s] = status[s]]_vars

\* C4: a pump (of either runtime) that reached end-of-stream while the
\* interactive flag was set does not write status completed (and so emits no
\* session:completed).
C4_InteractiveEosSuppressed ==
    \A r \in Runs : pump[r].eosFlag => pump[r].pc # "eos_emit"

\* C5: once transition_to_interactive has returned for an active session, no
\* session:completed is emitted for it until continue_task resumes it.
C5_NoCompletionAfterHandOff ==
    [][\A s \in SessionIds :
          (s \in handedOff /\ s \in handedOff') => Completed(s)' = Completed(s)]_vars

\* C6: a pump that reaches end-of-stream with the interactive flag set finds
\* a flag that was set during its own run, never one left from an earlier run.
C6_FlagConsumedByItsRun ==
    [][\A r \in Runs :
          (pump[r].pc = "reading" /\ pump'[r].pc # "reading" /\ IsInteractive(proc[r].sid))
          => flagRun[proc[r].sid] = r]_vars

\* C7: every stop_task / stop_team_task call that returns Ok has emitted
\* session:cancelled, whether or not a process was found and whatever the
\* stored status.
C7_StopOkEmitsCancelled ==
    [][\A s \in SessionIds :
          (stopCall[s].pc = "emit" /\ stopCall'[s].pc = "idle")
          => Cancelled(s)' = Cancelled(s) + 1]_vars

\* C7 witness: a stop returned Ok and emitted for a session that was already
\* completed and never had a process in the registry.
C7_Witness ==
    \E s \in SessionIds :
        /\ Cancelled(s) > 0 /\ stopCall[s].pc = "idle"
        /\ nruns = 0 /\ status[s] = "completed"

\* C8: in its database step stop writes status cancelled (with its summary)
\* exactly when the status it reads is not completed, cancelled or error; on
\* a terminal session status and summary stay as they are; and for an
\* existing session the stored status is terminal when the step ends.
C8_StopWritesIffNotTerminal ==
    [][\A s \in SessionIds :
          (stopCall[s].pc = "db" /\ stopCall'[s].pc = "emit") =>
              /\ status[s] \in {"completed", "cancelled", "error"}
                    => (status'[s] = status[s] /\ summary'[s] = summary[s])
              /\ status[s] \notin {"completed", "cancelled", "error", "none"}
                    => /\ status'[s] = "cancelled"
                       /\ summary'[s] = IF stopCall[s].team
                                        THEN "Team task stopped by user"
                                        ELSE "Task stopped by user"
              /\ status[s] # "none"
                    => status'[s] \in {"completed", "cancelled", "error"}]_vars

\* C8 witness: stop_team_task has written cancelled over a non-terminal status.
C8_Witness ==
    \E s \in SessionIds :
        /\ stopCall[s].pc = "emit" /\ stopCall[s].team
        /\ status[s] = "cancelled" /\ summary[s] = "Team task stopped by user"

\* C9: continue_task on a session without a stored upstream session id
\* returns the "no session id" error and changes nothing: no process, no
\* registry entry, no pump, no status change, no signal.
C9_ContinueWithoutTokenFails ==
    [][\A s \in SessionIds :
          (/\ contCall[s].pc = "idle" /\ contCall'[s] # contCall[s]
           /\ status[s] # "none" /\ token[s] = "null")
          => /\ contCall'[s].pc = "idle"
             /\ contCall'[s].res = "No Claude session ID"
             /\ UNCHANGED <<status, summary, token, runtime, processes, teams,
                            interactive, proc, pump, nruns, emitted>>]_vars

\* C9 witness: continue_task failed on a completed session that has no
\* upstream session id.
C9_Witness ==
    \E s \in SessionIds :
        /\ contCall[s].res = "No Claude session ID"
        /\ token[s] = "null" /\ status[s] = "completed"

C11_NoHalfRegisteredSession ==
    \A s \in SessionIds :
        startCall[s].res = "Err" =>
            /\ processes[s] = 0 /\ teams[s] = {}
            /\ RunsOf(s) = {}
            /\ status[s] # "active"

\* C12: when the spawn fails in start_task after the session row was
\* created, session:error has been emitted for the session.
C12_SpawnFailureEmitsError ==
    \A s \in SessionIds :
        startCall[s].res = "Err" => emitted[s]["session:error"] > 0

\* C13: whenever a session's entry in the single-process map is removed or
\* replaced, the child it held has been killed and reaped.
C13_EntryLeavesOnlyKilled ==
    [][\A s \in SessionIds :
          (processes[s] # 0 /\ processes'[s] # processes[s])
          => proc'[processes[s]].st = "exited"]_vars

\* C14: under fairness every process registered in the single-process map
\* is eventually removed from it, also one that exits on its own and whose
\* session the pump marks completed.
C14_RegisteredEventuallyRemoved ==
    \A s \in SessionIds : (processes[s] # 0) ~> (processes[s] = 0)

\* C15 as stated: after any sequence of registry operations no session id
\* is present in both the single-process map and the team map.
C15_NeverInBothMaps ==
    \A id \in RegIds : ~(processes[id] # 0 /\ teams[id] # {})

\* C15 as it holds: the two maps are independent. register writes only the
\* single-process map and register_team only the team map (the new value
\* replaces the id's entry in that map), kill removes only from the
\* single-process map and kill_team only from the team map.
C15_MapsIndependent ==
    [][\A id \in RegIds :
          /\ Register(id) => (teams' = teams /\ processes'[id] = nruns + 1)
          /\ \A k \in 1..MaxTeam :
                RegisterTeam(id, k) =>
                    (processes' = processes /\ teams'[id] = NewChildren(k))
          /\ Kill(id) => teams' = teams
          /\ KillTeam(id) => processes' = processes]_vars

\* C15 witness: register_team has just been called for an id that holds a
\* single process: the id is in both maps.
C15_Witness ==
    \E id \in RegIds :
        /\ lastCall.op = "register_team" /\ lastCall.id = id
        /\ processes[id] # 0 /\ teams[id] # {}

\* C16 as stated: kill(id) on a registered id returns true, removes the
\* entry and makes is_running(id) false, and a kill(id) that finds no entry
\* returns false and changes nothing; kill_team likewise with the number of
\* the team's processes and then 0.
C16_KillIdempotent ==
    [][\A id \in RegIds :
          /\ Kill(id) =>
                /\ lastCall'.found = (processes[id] # 0)
                /\ processes'[id] = 0
                /\ processes[id] # 0 => ~IsRunning(id)'
                /\ processes[id] = 0 => UNCHANGED <<processes, teams, proc>>
          /\ KillTeam(id) =>
                /\ lastCall'.count = Cardinality(teams[id])
                /\ teams'[id] = {}
                /\ teams[id] # {} => ~IsRunning(id)'
                /\ teams[id] = {} => UNCHANGED <<processes, teams, proc>>]_vars

\* C16 as it holds: kill(id) returns whether the single-process map had an
\* entry for id and leaves none, so that the next kill(id) finds nothing,
\* returns false and changes nothing; kill_team(id) returns the size of the
\* id's team and leaves none, so that the next kill_team(id) returns 0 and
\* changes nothing. After kill(id), is_running(id) is true exactly when the id
\* has a team, and after kill_team(id) exactly when it has a single process.
C16_KillIdempotentPerMap ==
    [][\A id \in RegIds :
          /\ Kill(id) =>
                /\ lastCall'.found = (processes[id] # 0)
                /\ processes'[id] = 0 /\ ~KillFound(id)'
                /\ IsRunning(id)' = (teams[id] # {})
                /\ processes[id] # 0 => proc'[processes[id]].st = "exited"
                /\ processes[id] = 0 => UNCHANGED <<processes, teams, proc>>
          /\ KillTeam(id) =>
                /\ lastCall'.count = Cardinality(teams[id])
                /\ teams'[id] = {} /\ KillTeamCount(id)' = 0
                /\ IsRunning(id)' = (processes[id] # 0)
                /\ \A c \in teams[id] : proc'[c].st = "exited"
                /\ teams[id] = {} => UNCHANGED <<processes, teams, proc>>]_vars

\* C16 witness: kill has just returned true for an id that also has a team:
\* its single entry is gone and is_running is still true.
C16_Witness ==
    \E id \in RegIds :
        /\ lastCall.op = "kill" /\ lastCall.id = id /\ lastCall.found
        /\ processes[id] = 0 /\ IsRunning(id)

\* The children the registry holds for an id, and all it holds.
TrackedBy(id) == {c \in Runs : processes[id] = c \/ c \in teams[id]}
Tracked == UNION {TrackedBy(id) : id \in DOMAIN processes}

\* C17: kill_all returns the number of single processes plus the number of
\* team member processes tracked when it is called; afterwards active_count
\* is 0, is_running is false for every id, and every child that was tracked
\* has been killed.
C17_KillAllCountsAndClears ==
    [][KillAll =>
          /\ lastCall'.count = Cardinality(Tracked)
          /\ lastCall'.count = ActiveCount
          /\ ActiveCount' = 0
          /\ \A id \in RegIds : ~IsRunning(id)'
          /\ \A c \in Tracked : proc'[c].st = "exited"]_vars

\* C17 witness: kill_all has returned 3 for a registry that held a single
\* process and a team of two, and the registry is empty.
C17_Witness ==
    /\ lastCall.op = "kill_all" /\ lastCall.count = 3
    /\ ActiveCount = 0
    /\ \E c \in Runs : proc[c].st = "exited" /\ proc[c].sid = "s2"

\* C18: register(id, p2) on an id registered with p1 leaves exactly p2 as the
\* id's entry, leaves active_count and every other entry unchanged, and does
\* not kill p1.
C18_RegisterReplaces ==
    [][\A id \in RegIds :
          (Register(id) /\ processes[id] # 0) =>
              /\ processes'[id] = nruns + 1
              /\ processes'[id] # processes[id]
              /\ TrackedBy(id)' \ teams[id] = {nruns + 1}
              /\ ActiveCount' = ActiveCount
              /\ proc'[processes[id]] = proc[processes[id]]
              /\ \A o \in RegIds \ {id} : processes'[o] = processes[o]
              /\ teams' = teams]_vars

\* C18 witness: register has replaced the entry of a running child, which is
\* still running and no longer in the registry.
C18_Witness ==
    \E id \in RegIds, c \in Runs :
        /\ lastCall.op = "register" /\ lastCall.id = id
        /\ proc[c].sid = id /\ proc[c].st = "running"
        /\ processes[id] # 0 /\ c \notin Tracked

\* C19: kill on an id without a single process returns false, kill_team on
\* an id without a team returns 0, and both leave the registry and every
\* child as they are; kill(id) and kill_team(id) leave the entries and the
\* children of every other id unchanged.
C19_KillFrame ==
    [][\A id \in RegIds :
          /\ (Kill(id) /\ processes[id] = 0) =>
                (~lastCall'.found /\ UNCHANGED <<processes, teams, proc>>)
          /\ (KillTeam(id) /\ teams[id] = {}) =>
                (lastCall'.count = 0 /\ UNCHANGED <<processes, teams, proc>>)
          /\ (Kill(id) \/ KillTeam(id)) =>
                /\ \A o \in RegIds \ {id} :
                      processes'[o] = processes[o] /\ teams'[o] = teams[o]
                /\ \A c \in Runs : proc[c].sid # id => proc'[c] = proc[c]]_vars

\* C19 witness: kill_team has killed the team of one id while another id
\* keeps its entry.
C19_Witness ==
    \E id \in RegIds, o \in RegIds :
        /\ o # id
        /\ lastCall.op = "kill_team" /\ lastCall.id = id /\ lastCall.count > 0
        /\ TrackedBy(o) # {}

\* C20: is_running(id) is true exactly when the registry holds a child for
\* the id in the single-process map or in the team map, and active_count is
\* the number of children the registry holds in the two maps together.
C20_ObserversMatchMaps ==
    /\ \A id \in DOMAIN processes : IsRunning(id) = (TrackedBy(id) # {})
    /\ ActiveCount = Cardinality(Tracked)

\* C20 witness: an id with a team and no single process counts as running,
\* next to a single process of another id.
C20_Witness ==
    \E id \in RegIds :
        /\ processes[id] = 0 /\ IsRunning(id)
        /\ SingleCount > 0 /\ ActiveCount > SingleCount

\* C21: for every input line, parse_claude_output and parse_codex_output
\* return None exactly when the line is blank (nothing but whitespace, so
\* that the trimmed line is empty), and otherwise always return an event:
\* its type is the line's string type field when the line is JSON with
\* one, the runtime's fallback type (output for Claude, message for Codex)
\* when it is JSON without a string type, and the fallback type with the
\* payload {text: trimmed line} when the line is not JSON.
Blank(text) == \A i \in 1..Len(text) : text[i] \in Whitespace
IsTrimOf(t, text) ==
    /\ t # <<>>
    /\ t[1] \notin Whitespace
    /\ t[Len(t)] \notin Whitespace
    /\ \E a \in 0..(Len(text) - Len(t)) :
          /\ SubSeq(text, a + 1, a + Len(t)) = t
          /\ \A i \in (1..a) \cup ((a + Len(t) + 1)..Len(text)) : text[i] \in Whitespace
FallbackOf(f) == IF f = "parse_claude_output" THEN "output" ELSE "message"
Parsed == applied.f \in {"parse_claude_output", "parse_codex_output"}
C21_ParseTotal ==
    Parsed =>
        LET line == applied.arg
            event == applied.res
            v == line.value
            hasType == v.obj /\ v.type.k = "str"
        IN  /\ event.some <=> ~Blank(line.raw)
            /\ (event.some /\ line.json /\ hasType) =>
                  event.event_type = v.type.s /\ event.payload = v
            /\ (event.some /\ line.json /\ ~hasType) =>
                  event.event_type = FallbackOf(applied.f) /\ event.payload = v
            /\ (event.some /\ ~line.json) =>
                  /\ event.event_type = FallbackOf(applied.f)
                  /\ event.payload.obj
                  /\ event.payload.text.k = "str"
                  /\ IsTrimOf(event.payload.text.s, line.raw)
                  /\ event.payload = [EmptyObject EXCEPT !.text = event.payload.text]

\* parse_codex_output has wrapped a padded line that is not JSON.
C21_Witness ==
    /\ applied.f = "parse_codex_output"
    /\ ~applied.arg.json
    /\ Len(applied.arg.raw) > Len(TrimSeq(applied.arg.raw))
    /\ applied.res.some
    /\ applied.res.event_type = "message"
    /\ applied.res.payload.text = JStr(<<"b", "u", "i", "l", "d", " ", "o", "k">>)

\* C22: normalize_codex_event is total and deterministic: plan and
\* thinking map to thinking; tool_call, exec and function_call to
\* tool_call; tool_result and function_result to tool_result; patch, apply
\* and file_edit to file_change; error to error; every other type to
\* output; the payload and the timestamp are unchanged and the runtime tag
\* is codex.
MappingTable ==
    { <<"plan", "thinking">>, <<"thinking", "thinking">>,
      <<"tool_call", "tool_call">>, <<"exec", "tool_call">>,
      <<"function_call", "tool_call">>,
      <<"tool_result", "tool_result">>, <<"function_result", "tool_result">>,
      <<"patch", "file_change">>, <<"apply", "file_change">>,
      <<"file_edit", "file_change">>, <<"error", "error">> }
FixedPhrases ==
    { <<"w", "o", "u", "l", "d", " ", "y", "o", "u", " ", "l", "i", "k", "e">>,
      <<"s", "h", "a", "l", "l", " ", "i">>,
      <<"d", "o", " ", "y", "o", "u", " ", "w", "a", "n", "t">>,
      <<"p", "l", "e", "a", "s", "e", " ", "c", "o", "n", "f", "i", "r", "m">>,
      <<"l", "e", "t", " ", "m", "e", " ", "k", "n", "o", "w">>,
      <<"w", "h", "a", "t", " ", "s", "h", "o", "u", "l", "d", " ", "i">>,
      <<"w", "h", "i", "c", "h", " ", "o", "p", "t", "i", "o", "n">>,
      <<"s", "h", "o", "u", "l", "d", " ", "i">>,
      <<"c", "a", "n", " ", "i">>,
      <<"c", "o", "u", "l", "d", " ", "y", "o", "u">>,
      <<"a", "n", "y", " ", "p", "r", "e", "f", "e", "r", "e", "n", "c", "e">> }
SameLetter(c, d) == LowerChar(c) = LowerChar(d)
HasPhrase(text, phrase) ==
    \E a \in 0..(Len(text) - Len(phrase)) :
        \A j \in 1..Len(phrase) : SameLetter(text[a + j], phrase[j])
LastVisible(text) ==
    text[CHOOSE i \in 1..Len(text) :
            /\ text[i] \notin Whitespace
            /\ \A j \in (i + 1)..Len(text) : text[j] \in Whitespace]
C26_QuestionDetector ==
    applied.f = "detect_question_in_result" =>
        LET text == applied.arg
        IN  /\ Blank(text) => applied.res = FALSE
            /\ ~Blank(text) =>
                  (applied.res <=>
                      \/ LastVisible(text) = "?"
                      \/ \E phrase \in FixedPhrases : HasPhrase(text, phrase))

\* A phrase written in capitals was found in a text without a question mark.
C26_Witness ==
    /\ applied.f = "detect_question_in_result"
    /\ applied.arg = <<"S", "H", "A", "L", "L", " ", "I", " ", "p", "r", "o", "c", "e", "e", "d">>
    /\ applied.res = TRUE

\* The text of the scenario is no question.
C26_ScenarioWitness ==
    /\ applied.f = "detect_question_in_result"
    /\ applied.arg = <<"I", " ", "h", "a", "v", "e", " ", "f", "i", "n", "i", "s", "h", "e", "d", " ", "t", "h", "e", " ", "r", "e", "f", "a", "c", "t", "o", "r", ".">>
    /\ applied.res = FALSE

\* C23: every event that a stdout pump emits outward and persists, for
\* either runtime, has an eventType in the closed unified vocabulary
\* {thinking, tool_call, tool_result, file_change, error, output, system}.
UnifiedVocabulary ==
    {"thinking", "tool_call", "tool_result", "file_change", "error", "output", "system"}
C23_UnifiedVocabulary ==
    stream.pc # "none" =>
        /\ \A i \in 1..Len(stream.out) : stream.out[i].eventType \in UnifiedVocabulary
        /\ \A i \in 1..Len(stream.stored) : stream.stored[i].eventType \in UnifiedVocabulary

\* C24, as stated: the emitted elf:event signals and the persisted events
\* both follow the arrival order of the lines, with exactly one event per
\* non-blank line and none for a blank line, and each event is emitted
\* before it is persisted.
LinesOf(events) == [i \in 1..Len(events) |-> events[i].line]
Increasing(ns) == \A i, j \in 1..Len(ns) : i < j => ns[i] < ns[j]
Range(ns) == {ns[i] : i \in 1..Len(ns)}
NonBlankRead == (1..stream.pos) \ stream.blanks
C24_OneStoredEventPerLine ==
    stream.pc # "none" =>
        /\ Increasing(LinesOf(stream.out))
        /\ Increasing(LinesOf(stream.stored))
        /\ Range(LinesOf(stream.stored)) \subseteq Range(LinesOf(stream.out))
        /\ stream.pc \notin {"emit", "persist"} =>
              /\ Range(LinesOf(stream.out)) = NonBlankRead
              /\ Range(LinesOf(stream.stored)) = NonBlankRead

\* C24, amended: the emitted elf:event signals follow the arrival order of
\* the lines, exactly one per non-blank line and none for a blank line; an
\* event is stored only after it was emitted, and the stored events are, in
\* the same order, those emitted events whose insert succeeded: at most one
\* per non-blank line.
C24_EmittedPerLineStoredInOrder ==
    stream.pc # "none" =>
        /\ Increasing(LinesOf(stream.out))
        /\ Increasing(LinesOf(stream.stored))
        /\ \A i \in 1..Len(stream.stored) :
              \E j \in 1..Len(stream.out) : stream.out[j] = stream.stored[i]
        /\ Range(LinesOf(stream.out)) \cap stream.blanks = {}
        /\ stream.pc = "emit" =>
              Range(LinesOf(stream.out)) = NonBlankRead
        /\ stream.pc = "persist" =>
              /\ Range(LinesOf(stream.out)) = NonBlankRead \cup {stream.pos + 1}
              /\ stream.pos + 1 \notin Range(LinesOf(stream.stored))
        /\ stream.pc \notin {"emit", "persist"} =>
              Range(LinesOf(stream.out)) = NonBlankRead

\* Two events went out, the insert of the first failed, the second is stored.
C24_Witness ==
    /\ stream.pc = "read"
    /\ Len(stream.out) = 2
    /\ Len(stream.stored) = 1
    /\ stream.stored[1] = stream.out[2]

\* C25: the Claude pump keeps the payload of the last result event and the
\* text of the last assistant text block that is not blank; at a completing
\* end-of-stream the final text is the result's string field result, else
\* text, else content, and, when the result gives none, the kept assistant
\* text; session:completed then carries lastResult equal to that text
\* (truncated) and needsInput equal to the question detector applied to
\* it, and carries lastResult null with needsInput false when no text was
\* found.
FirstString(v) ==
    IF v.result.k = "str" THEN SomeText(v.result.s)
    ELSE IF v.text.k = "str" THEN SomeText(v.text.s)
    ELSE IF v.content.k = "str" THEN SomeText(v.content.s)
    ELSE NoText
FinalText ==
    LET fromResult == IF stream.last_result_payload.some
                      THEN FirstString(stream.last_result_payload.value) ELSE NoText
    IN  IF fromResult.some THEN fromResult ELSE stream.last_assistant_text
TextBlocks(v) ==
    {i \in 1..Len(v.blocks) :
        /\ v.blocks[i].type = TStr("text")
        /\ v.blocks[i].text.k = "str"
        /\ ~Blank(v.blocks[i].text.s)}
C25_Tracking ==
    (stream.pc = "persist" /\ stream.rt = "claude" /\ stream'.pc = "read") =>
        /\ stream'.last_result_payload =
              IF stream.cur.event_type = "result"
              THEN [some |-> TRUE, value |-> stream.cur.payload]
              ELSE stream.last_result_payload
        /\ stream'.last_assistant_text =
              IF stream.cur.event_type = "assistant" /\ TextBlocks(stream.cur.payload) # {}
              THEN SomeText(stream.cur.payload.blocks[
                       CHOOSE i \in TextBlocks(stream.cur.payload) :
                           \A j \in TextBlocks(stream.cur.payload) : j <= i].text.s)
              ELSE stream.last_assistant_text
C25_Completion ==
    (stream.pc = "eos_emit" /\ stream.rt = "claude" /\ stream'.pc = "done") =>
        /\ stream'.completed.sent
        /\ stream'.completed.keys = {"sessionId", "needsInput", "lastResult"}
        /\ FinalText.some =>
              /\ stream'.completed.lastResult = SomeText(Truncate(FinalText.text).text)
              /\ stream'.completed.needsInput = detect_question_in_result(FinalText.text)
        /\ ~FinalText.some =>
              /\ stream'.completed.lastResult = NoText
              /\ stream'.completed.needsInput = FALSE
C25_FinalTextAndNeedsInput == [][C25_Tracking /\ C25_Completion]_vars

\* The scenario: the single line {"type":"result","result":"Done, 3 tests
\* added."} was read, and session:completed went out with needsInput false
\* and that text as lastResult.
C25_Witness ==
    /\ stream.pc = "done"
    /\ stream.rt = "claude"
    /\ stream.pos = 1
    /\ stream.last_result_payload = [some |-> TRUE, value |-> Result(JStr(DoneText), JNone, JNone)]
    /\ stream.completed.sent
    /\ stream.completed.needsInput = FALSE
    /\ stream.completed.lastResult = SomeText(DoneText)

\* The result event carried no text and the assistant's question was used.
C25_FallbackWitness ==
    /\ stream.pc = "done"
    /\ stream.last_result_payload = [some |-> TRUE, value |-> Result(JNone, JNone, JNone)]
    /\ stream.completed.needsInput = TRUE
    /\ stream.completed.lastResult = SomeText(WhichText)

\* C27: the summary stored with status completed and the lastResult carried
\* by session:completed are never longer than 500 characters: a text of at
\* most 500 characters is passed unchanged, and a longer text is cut to its
\* first 497 characters followed by the three-character marker "...".
CutTo500(text, cut) ==
    /\ Len(cut) <= 500
    /\ Len(text) <= 500 => cut = text
    /\ Len(text) > 500 => cut = SubSeq(text, 1, 497) \o <<".", ".", ".">>
C27_AtMost500Characters ==
    (stream.pc \in {"eos_emit", "done"} /\ stream.rt = "claude") =>
        /\ (stream.summary.some /\ ResultText(stream.last_result_payload).some) =>
              CutTo500(ResultText(stream.last_result_payload).text, stream.summary.text)
        /\ (stream.completed.sent /\ stream.completed.lastResult.some) =>
              CutTo500(FinalText.text, stream.completed.lastResult.text)

\* The pump died in the slice &text[..497] and sent no terminal signal.
C27_PumpPanicked == stream.pc = "panicked" /\ ~stream.completed.sent

Built == applied.f = "build_codex_team_prompt"
LinearPlan3 == Len(applied.arg.roles) = 3 /\ applied.arg.task_graph = ChainGraph(3)
PhaseHeadings == {i \in 1..Len(applied.res) :
                     applied.res[i] # <<>> /\ applied.res[i][1] = "### Phase "}
\* The lines of phase k: its heading and what follows up to the next empty line.
HeadingOf(k) == CHOOSE i \in PhaseHeadings : Cardinality({j \in PhaseHeadings : j <= i}) = k
PhaseLines(k) == {HeadingOf(k), HeadingOf(k) + 1}
Mentions(line, piece) == \E j \in 1..Len(line) : line[j] = piece
InRoleOrder ==
    /\ Cardinality(PhaseHeadings) = Len(applied.arg.roles)
    /\ \A k \in 1..Len(applied.arg.roles) :
          /\ applied.res[HeadingOf(k)] =
                <<"### Phase ", DecimalOf(k), " ", "U+2014", " ", applied.arg.roles[k].name>>
          /\ applied.res[HeadingOf(k) + 1] = <<applied.arg.roles[k].focus>>
          /\ applied.res[HeadingOf(k) + 2] = <<>>
C30_PhaseRefersToPrevious ==
    (Built /\ LinearPlan3) =>
        /\ InRoleOrder
        /\ \A k \in 2..3 : \E i \in PhaseLines(k) :
              \/ Mentions(applied.res[i], DecimalOf(k - 1))
              \/ Mentions(applied.res[i], applied.arg.roles[k - 1].name)
              \/ Mentions(applied.res[i], applied.arg.task_graph[k - 1].id)

\* C30, amended: build_codex_team_prompt renders one phase block per role,
\* in role order (Phase 1, Phase 2, Phase 3), each made of the role's name
\* and focus and of nothing else; the dependencies are rendered after the
\* blocks, in an Execution Order list with one entry per node in graph
\* order: for a linear chain the first entry reads "start immediately" and
\* the entry of node k>1 reads "after" the id of node k-1. No list is
\* rendered for an empty graph.
OrderStart == CHOOSE i \in 1..Len(applied.res) : applied.res[i] = <<"## Execution Order">>
C30_PhasesThenExecutionOrder ==
    Built =>
        LET plan == applied.arg
            n == Len(plan.task_graph)
        IN  /\ InRoleOrder
            /\ (n = 0) <=> (\A i \in 1..Len(applied.res) : applied.res[i] # <<"## Execution Order">>)
            /\ n > 0 =>
                  /\ \A k \in PhaseHeadings : k < OrderStart
                  /\ applied.res[OrderStart + 1] = <<>>
                  /\ \A k \in 1..n :
                        LET entry == applied.res[OrderStart + 1 + k]
                            node == plan.task_graph[k]
                        IN  /\ SubSeq(entry, 1, 5) = <<"- [", node.id, "] ", node.label, " (">>
                            /\ entry[Len(entry)] = ")"
                            /\ node.depends_on = <<>> =>
                                  entry = <<"- [", node.id, "] ", node.label, " (",
                                            "start immediately", ")">>
                            /\ node.depends_on # <<>> =>
                                  /\ entry[6] = "after "
                                  /\ \A d \in 1..Len(node.depends_on) :
                                        entry[5 + 2 * d] = node.depends_on[d]
                                  /\ Len(entry) = 6 + 2 * Len(node.depends_on)
            /\ (Len(plan.roles) = 3 /\ plan.task_graph = ChainGraph(3)) =>
                  /\ applied.res[OrderStart + 2] =
                        <<"- [", "task-1", "] ", "Research and gather info", " (",
                          "start immediately", ")">>
                  /\ applied.res[OrderStart + 3] =
                        <<"- [", "task-2", "] ", "Implement the solution", " (",
                          "after ", "task-1", ")">>
                  /\ applied.res[OrderStart + 4] =
                        <<"- [", "task-3", "] ", "Test and verify", " (",
                          "after ", "task-2", ")">>

\* The prompt of the plan with 3 roles and a linear chain was built.
C30_Witness ==
    /\ Built
    /\ LinearPlan3
    /\ Cardinality(PhaseHeadings) = 3
    /\ Mentions(applied.res[OrderStart + 4], "task-2")

\* C31: for every plan, build_team_prompt and build_codex_team_prompt list
\* every role with its focus in plan order and every task node in plan
\* order with its node id, its assignee and either a no-dependency marker
\* or exactly its depends_on ids in order; when the task graph is empty the
\* graph section is omitted.
C31_RolesAndNodesListed ==
    applied.f \in {"build_team_prompt", "build_codex_team_prompt"} =>
        LET plan == applied.arg
            prompt == applied.res
            lines == 1..Len(prompt)
            ids == {plan.task_graph[k].id : k \in 1..Len(plan.task_graph)}
            \* the first line that names the role, and the entry of the node
            RoleAt(k) == CHOOSE i \in lines :
                            /\ Mentions(prompt[i], plan.roles[k].name)
                            /\ \A j \in 1..(i - 1) : ~Mentions(prompt[j], plan.roles[k].name)
            EntryAt(k) == CHOOSE i \in lines :
                            /\ Len(prompt[i]) >= 2
                            /\ prompt[i][1] = "- ["
                            /\ prompt[i][2] = plan.task_graph[k].id
            \* the ids of other nodes named in an entry, in the order of the line
            Upstream(line) == LET at == {j \in 3..Len(line) : line[j] \in ids}
                                  Nth(n) == CHOOSE j \in at : Cardinality({h \in at : h <= j}) = n
                              IN  [n \in 1..Cardinality(at) |-> line[Nth(n)]]
        IN  /\ \A k \in 1..Len(plan.roles) :
                  /\ \E i \in lines : Mentions(prompt[i], plan.roles[k].name)
                  /\ \E i \in {RoleAt(k), RoleAt(k) + 1} :
                        Mentions(prompt[i], plan.roles[k].focus)
                  /\ k > 1 => RoleAt(k - 1) < RoleAt(k)
            /\ \A k \in 1..Len(plan.task_graph) :
                  /\ \E i \in lines : Len(prompt[i]) >= 2 /\ prompt[i][1] = "- ["
                                        /\ prompt[i][2] = plan.task_graph[k].id
                  /\ k > 1 => EntryAt(k - 1) < EntryAt(k)
                  /\ Mentions(prompt[EntryAt(k)], plan.task_graph[k].assignee)
                  /\ Upstream(prompt[EntryAt(k)]) = plan.task_graph[k].depends_on
                  /\ plan.task_graph[k].depends_on = <<>> =>
                        \/ Mentions(prompt[EntryAt(k)], "none")
                        \/ Mentions(prompt[EntryAt(k)], "start immediately")
            /\ plan.task_graph = <<>> =>
                  \A i \in lines :
                      /\ prompt[i] \notin {<<"## Task Graph">>, <<"## Execution Order">>}
                      /\ prompt[i] # <<>> => prompt[i][1] # "- ["

\* build_team_prompt does all of it; build_codex_team_prompt renders the
\* entry of a node as "- [id] label (deps)", without the assignee.
C31_ClaudePromptComplete ==
    applied.f = "build_codex_team_prompt" \/ C31_RolesAndNodesListed
C31_CodexEntryWithoutAssignee ==
    /\ Built
    /\ LinearPlan3
    /\ \A i \in 1..Len(applied.res) : ~Mentions(applied.res[i], " (assigned: ")
    /\ applied.res[OrderStart + 3] =
          <<"- [", "task-2", "] ", "Implement the solution", " (", "after ", "task-1", ")">>

\* C32: a read error on stdout ends the pump's read loop exactly like
\* end-of-file, and the end-of-stream handling then still runs; for every
\* pump the end-of-stream handling runs exactly once, after the last line
\* has been processed, and no event of that pump is emitted after it.
AfterLoop == {"eos_db", "eos_emit", "done", "panicked"}
C32_ReadErrorIsEndOfStream ==
    [][/\ (StreamReadError("no") \/ StreamEof("no")) =>
             \* the loop is left between two lines, and only the position of
             \* the thread changes
             /\ stream.cur = NoCur
             /\ stream'.pc = "eos_db"
             /\ [stream' EXCEPT !.ended = "no"] = [stream EXCEPT !.pc = "eos_db"]
       \* the handling is entered from the loop alone, and only once
       /\ stream'.pc = "eos_db" => stream.pc = "read"
       /\ stream.pc \in AfterLoop =>
             /\ stream'.pc \in AfterLoop \ {"eos_db"}
             /\ stream'.out = stream.out
             /\ stream'.stored = stream.stored
             /\ stream'.pos = stream.pos
             /\ stream'.ended = stream.ended
       \* what the handling does is the same after a read error
       /\ StreamEosDb(TRUE) =>
             /\ stream'.pc \in {"eos_emit", "panicked"}
             /\ stream'.pc = "eos_emit" =>
                   stream'.summary = SomeText(Summary(stream.rt, stream.last_result_payload).text)
       /\ StreamEosEmit => (stream'.pc = "done" => stream'.completed.sent)
      ]_vars

\* A pump read a line, met a read error, and completed the session.
C32_Witness ==
    /\ stream.pc = "done"
    /\ stream.ended = "error"
    /\ stream.pos = 1
    /\ Len(stream.out) = 1
    /\ stream.completed.sent
    /\ stream.summary.some

\* C33, as stated: for each Claude stdout event of type system that carries
\* a string session_id, the pump stores that value as the session's upstream
\* token and emits session:claude_id; events of any other type or without
\* session_id never change the stored token, so the token used by a later
\* continue_task is the one from the most recent such event.
LineRead == stream.pc = "read" /\ stream'.pc = "emit"
CarriesToken ==
    /\ stream.rt = "claude"
    /\ stream'.cur.event_type = "system"
    /\ stream'.cur.payload.obj
    /\ stream'.cur.payload.session_id.k = "str"
Announced == stream'.ids = Append(stream.ids, stream'.cur.payload.session_id.s)
TokenKept == stream'.claude_sid = stream.claude_sid /\ stream'.ids = stream.ids
C33_TokenIsLatestSystemId ==
    [][IF LineRead /\ CarriesToken
       THEN Announced /\ stream'.claude_sid = stream'.cur.payload.session_id
       ELSE TokenKept]_vars

\* C33, amended: such an event is always announced with session:claude_id,
\* and its session_id replaces the stored token when the database lock was
\* obtained; otherwise the stored token stays. No other step changes the
\* stored token, which is therefore the session_id of the most recent such
\* event that reached the database, and always one that was announced.
C33_TokenIsLatestStoredSystemId ==
    [][/\ IF LineRead /\ CarriesToken
          THEN /\ Announced
               /\ \A line \in TrackLines, dbOk \in BOOLEAN :
                     StreamRead(line, dbOk) =>
                        stream'.claude_sid = IF dbOk THEN stream'.cur.payload.session_id
                                             ELSE stream.claude_sid
          ELSE TokenKept
       /\ stream'.claude_sid.k = "str" =>
             \E i \in 1..Len(stream'.ids) : stream'.ids[i] = stream'.claude_sid.s
      ]_vars

\* The Claude pump read two system events with different session ids and
\* stored the second.
C33_Witness ==
    /\ stream.rt = "claude"
    /\ stream.ids = <<"tok-a", "tok-b">>
    /\ stream.claude_sid = TStr("tok-b")
    /\ stream.pos = 2

\* The second one was announced but did not reach the database.
C33_NotStored ==
    /\ stream.rt = "claude"
    /\ stream.ids = <<"tok-a", "tok-b">>
    /\ stream.claude_sid = TStr("tok-a")

\* C34: in every reachable state, after any sequence of start_task,
\* stop_task, continue_task, pump end-of-stream handling and the startup
\* call of cleanup_stale_sessions, each stored session's status is one of
\* spawning, active, completed, error, cancelled.
C34_StatusInVocabulary ==
    \A s \in SessionIds :
        status[s] # "none" =>
            status[s] \in {"spawning", "active", "completed", "error", "cancelled"}

\* The commands and the pumps write active, completed and cancelled only;
\* the one status outside the five is the 'failed' of the startup call.
C34_StatusWrittenByCommands ==
    [][\A s \in SessionIds :
          status'[s] # status[s] => status'[s] \in {"active", "completed", "cancelled"}]_vars
C34_StaleSessionFailed ==
    \E s \in SessionIds :
        /\ status[s] = "failed"
        /\ summary[s] = "Session interrupted (app restarted)"

\* C35: update_session_status(id, status, summary) sets ended_at exactly
\* when the new status is completed, error or cancelled and otherwise
\* leaves ended_at unchanged; it leaves the summary unchanged when no
\* summary is given; it returns false and changes nothing when the session
\* does not exist.
C35_UpdateStatusFrame ==
    applied.f = "update_session_status" =>
        LET call == applied.arg
            old == call.table
            new == applied.res.table
            exists == old[call.id].st # "none"
        IN  /\ applied.res.updated = exists
            /\ \A s \in RegIds : s # call.id => new[s] = old[s]
            /\ ~exists => new = old
            /\ exists =>
                  /\ new[call.id].st = call.status
                  /\ new[call.id].ended_at =
                        IF call.status \in {"completed", "error", "cancelled"}
                        THEN applied.now ELSE old[call.id].ended_at
                  /\ new[call.id].sum =
                        IF call.summary = "null" THEN old[call.id].sum ELSE call.summary

\* A session that had ended and was resumed is set to a status that is not
\* terminal, without a summary: ended_at and the summary stay.
C35_Witness ==
    /\ applied.f = "update_session_status"
    /\ applied.arg.id = "s1"
    /\ applied.arg.table["s1"] = [st |-> "completed", ended_at |-> 1700000000, sum |-> "All done"]
    /\ applied.arg.status = "active"
    /\ applied.arg.summary = "null"
    /\ applied.res.updated
    /\ applied.res.table["s1"] = [st |-> "active", ended_at |-> 1700000000, sum |-> "All done"]

\* The session does not exist: false, and the table stays as it was.
C35_MissingRow ==
    /\ applied.f = "update_session_status"
    /\ applied.arg.table[applied.arg.id].st = "none"
    /\ ~applied.res.updated
    /\ applied.res.table = applied.arg.table

\* C36: a stdout pump's end-of-stream handler affects only the run it
\* belongs to: if stop_task and then continue_task are called before the
\* stopped process's pump has run its end-of-stream handling, that earlier
\* pump neither sets the status to completed nor emits session:completed
\* while the resumed process is still running.
C36_OldPumpLeavesResumedRun ==
    [][\A r \in Runs :
          LET s == proc[r].sid
          IN  (/\ pump[r].eosResumed
               /\ processes[s] > r
               /\ proc[processes[s]].st = "running")
              => /\ (status'[s] = "completed" /\ status[s] # "completed")
                       => pump'[r] = pump[r]
                 /\ Completed(s)' # Completed(s) => pump'[r] = pump[r]]_vars

\* The pump of the stopped child has completed the session and announced
\* it, and the resumed child is still running and registered.
C36_ResumedRunCompletedByOldPump ==
    \E s \in SessionIds :
        /\ Cardinality(RunsOf(s)) = 2
        /\ Cancelled(s) = 1 /\ Continued(s) = 1 /\ Completed(s) = 1
        /\ status[s] = "completed"
        /\ processes[s] = 2 /\ proc[2].st = "running" /\ pump[2].pc = "reading"
        /\ pump[1].pc = "done"

\* C37: under fairness, once the child process of a run has closed its
\* stdout (by exiting or by being killed), the session eventually leaves
\* the active state: its stored status becomes completed or cancelled,
\* unless transition_to_interactive was called during that same run.
\* flagRun[s] = r says that the flag now set was set during run r.
C37_ClosedStdoutEndsSession ==
    \A r \in 1..MaxRuns, s \in SessionIds :
        (proc[r].sid = s /\ proc[r].st = "exited" /\ pump[r].pc = "reading")
            ~> (status[s] \in {"completed", "cancelled"} \/ flagRun[s] = r)

\* The run is over, its pump has returned, no call is in flight, no flag is
\* set, and the session is still active.
C37_LeftActive ==
    \E r \in Runs :
        /\ proc[r].st = "exited" /\ pump[r].pc = "done"
        /\ status[proc[r].sid] = "active"
        /\ interactive = {}
        /\ \A s \in SessionIds :
              /\ stopCall[s].pc = "idle" /\ transCall[s].pc = "idle"
              /\ contCall[s].pc = "idle" /\ startCall[s].pc = "idle"

\* C38: no thread acquires one of the three locks (the registry's
\* single-process map lock, its team map lock, the database connection
\* lock) while holding another, so no interleaving of registry operations,
\* the start/stop/continue/transition commands and the pump threads can
\* deadlock on these locks.
HeldBy(t) == {l \in Locks : locks.owner[l] = t}
CanStep(t) ==
    /\ Running(t)
    /\ NextOp(t).a = "lock" => locks.owner[NextOp(t).l] = "free"
C38_NoNestedLocksNoDeadlock ==
    /\ \A t \in LockThreads :
          /\ Cardinality(HeldBy(t)) <= 1
          /\ (Running(t) /\ NextOp(t).a = "lock") => HeldBy(t) = {}
    /\ (\E t \in LockThreads : Running(t)) => (\E t \in LockThreads : CanStep(t))

\* stop_team_task waits for the database lock that the Claude pump holds,
\* and holds no lock itself.
C38_Witness ==
    /\ locks.th["t1"].f = "stop_team_task"
    /\ locks.th["t2"].f = "stream_claude_output"
    /\ locks.th["t1"].pc = 5
    /\ locks.owner["db"] = "t2"
    /\ HeldBy("t1") = {}
    /\ ~CanStep("t1")

\* C39, as stated: at a completing end-of-stream with a tracked result
\* event, the token count is total_tokens when present, else input_tokens +
\* output_tokens when either is positive, else 0; session usage is written
\* if and only if the token count is positive or the cost is positive; it
\* is never written when there is no result event or when completion is
\* suppressed (interactive flag or cancelled status).
\* A count is present when the key holds an integer.
Present(v) == v.k = "int"
TokenCount(result) ==
    IF Present(result.total_tokens) THEN result.total_tokens.n
    ELSE IF \/ Present(result.input_tokens) /\ result.input_tokens.n > 0
            \/ Present(result.output_tokens) /\ result.output_tokens.n > 0
         THEN (IF Present(result.input_tokens) THEN result.input_tokens.n ELSE 0)
              + (IF Present(result.output_tokens) THEN result.output_tokens.n ELSE 0)
         ELSE 0
CostPositive(result) ==
    LET IsNumber(v) == v.k \in {"int", "float"}
        Positive(v) == v.k = "float" \/ v.n > 0
    IN  IF IsNumber(result.cost_usd) THEN Positive(result.cost_usd)
        ELSE IsNumber(result.cost) /\ Positive(result.cost)
Completing == stream.pc = "eos_db" /\ stream'.pc # "eos_db"
UsageDue ==
    /\ stream.last_result_payload.some
    /\ TokenCount(stream.last_result_payload.value) > 0
          \/ CostPositive(stream.last_result_payload.value)
UsageWritten ==
    /\ stream'.usage.written
    /\ stream'.usage.tokens = TokenCount(stream.last_result_payload.value)
NeverWithoutResult ==
    /\ stream'.usage.written => stream'.last_result_payload.some
    /\ (stream'.rt = "claude" /\ stream'.found # "no") => ~stream'.usage.written
C39_ZeroTotalNotWritten ==
    /\ stream.pc = "done"
    /\ stream.summary.some
    /\ stream.last_result_payload.some
    /\ stream.last_result_payload.value.total_tokens = Num("int", 0)
    /\ stream.last_result_payload.value.input_tokens = Num("int", 3)
    /\ ~stream.usage.written

\* The pump returned on the interactive flag with a result event in hand.
C39_SuppressedNotWritten ==
    /\ stream.pc = "done"
    /\ stream.found = "interactive"
    /\ stream.last_result_payload.some
    /\ TokenCount(stream.last_result_payload.value) = 100
    /\ ~stream.usage.written
    /\ ~stream.completed.sent

====
